---- MODULE Spec2Model ----
(***************************************************************************)
(* Runtime bridge and asynchronous request engine of ClaudeCiv6.           *)
(*                                                                         *)
(* Every thread of the program is modelled with its position: the runtime  *)
(* threads that call the engine and run the intercepted pcall, the worker  *)
(* threads, the host thread that installs the hook and the loader thread   *)
(* that runs DllMain's detach.  A call is split into the steps at which    *)
(* another thread can interleave: every atomic load, store and             *)
(* compare-exchange is a step, and so is every critical section that       *)
(* contains no such access.  Operations on the unsynchronised std::thread  *)
(* g_asyncThread are split into their read and their write.                *)
(***************************************************************************)
EXTENDS Integers, Sequences, FiniteSets, TLC

\* ------------------------------------------------------------------ bounds
\* Worker threads launched in one run (std::thread objects constructed).
MaxLaunch == 2

\* Distinct runtime instances (lua_State handles) the host creates.
MaxStates == 2

\* ------------------------------------------------------- program constants
kMaxHookRetries == 5
kLongResponseThreshold == 400

\* ----------------------------------------------------------------- threads
\* Runtime threads: each may run Lua, so call pcall and the engine.
Threads == {"t1", "t2"}

\* The single logical runtime thread of the sequential specification.
SeqThreads == {"t1"}

\* The host thread that creates game contexts (HookedCreateGameContext).
HostThread == "host"

\* The loader thread that runs DllMain(DLL_PROCESS_DETACH).
DllThread == "dll"

AllThreads == Threads \cup {HostThread, DllThread}

WorkerIds == 1..MaxLaunch

\* ------------------------------------------------------------- value domains
Idle == "Idle"
Pending == "Pending"
Ready == "Ready"
Failed == "Failed"
AsyncState == {Idle, Pending, Ready, Failed}

\* Game state snapshots, by what ExtractTurnAndPlayer and json::dump make
\* of them: (turn, playerID) and whether the text is valid UTF-8.
SnapTurn5 == [turn |-> 5, playerID |-> 0, utf8 |-> TRUE]
SnapNoTurn == [turn |-> -1, playerID |-> -1, utf8 |-> TRUE]
SnapBadUtf8 == [turn |-> -1, playerID |-> -1, utf8 |-> FALSE]
Snapshots == {SnapTurn5, SnapNoTurn, SnapBadUtf8}

\* Snapshots of another turn and of another player, for the turn cache.
SnapTurn6 == [turn |-> 6, playerID |-> 0, utf8 |-> TRUE]
SnapPlayer1 == [turn |-> 5, playerID |-> 1, utf8 |-> TRUE]
CacheSnapshots == {SnapTurn5, SnapTurn6, SnapPlayer1, SnapNoTurn, SnapBadUtf8}
NoSnap == [turn |-> -2, playerID |-> -2, utf8 |-> TRUE]

\* The (turn, playerID) pair ExtractTurnAndPlayer reads from a snapshot.
TurnKey(snap) == <<snap.turn, snap.playerID>>

\* Result strings of GetActionFromClaude.
ErrNoKey == "{\"error\":\"API key not set\"}"
ErrEmpty == "{\"error\":\"Empty response\"}"
ErrRateLimited == "{\"error\":\"rate limited\"}"
ActEndTurn == "{\"action\":\"end_turn\"}"
ActAlreadyQueried == "{\"action\":\"end_turn\",\"reason\":\"Already queried this turn\"}"

\* HttpPost outcomes: the reply body the service (or the transport) gives.
ReplyEmpty == [kind |-> "empty", text |-> ""]
ReplyError == [kind |-> "error", text |-> "rate limited"]
ReplyAction == [kind |-> "content", text |-> ActEndTurn]
Replies == {ReplyEmpty, ReplyError, ReplyAction}

\* Action payloads at and just over the bridge's size threshold, by their
\* length.
ActFull == "{\"action\":\"...\"} of 400 chars"
ActLong == "{\"action\":\"...\"} of 401 chars"
ReplyFull == [kind |-> "content", text |-> ActFull]
ReplyLong == [kind |-> "content", text |-> ActLong]
LuaReplies == {ReplyEmpty, ReplyError, ReplyAction, ReplyFull, ReplyLong}

\* std::string::length of a payload.
PayloadLength(text) ==
    CASE text = ActFull -> kLongResponseThreshold
      [] text = ActLong -> kLongResponseThreshold + 1
      [] OTHER -> Len(text)

\* What the bridge functions push when they refuse.
ErrShutdown == "{\"error\":\"Shutdown in progress\"}"
ErrNoGameState == "{\"error\":\"No game state received\"}"

\* json::parse of a result string, as far as the worker looks at it:
\* whether the top level carries "error" and the string it holds.
ErrorTextOf(result) ==
    CASE result = ErrNoKey -> "API key not set"
      [] result = ErrEmpty -> "Empty response"
      [] result = ErrRateLimited -> "rate limited"
      [] result = ErrShutdown -> "Shutdown in progress"
      [] result = ErrNoGameState -> "No game state received"
      [] OTHER -> ""

ContainsError(result) ==
    result \in {ErrNoKey, ErrEmpty, ErrRateLimited, ErrShutdown, ErrNoGameState}

\* lua_State handles: 0 is the null pointer.
NullState == 0
LuaStates == 1..MaxStates
Handles == {NullState} \cup LuaStates

\* (nargs, nresults, errfunc) of an intercepted pcall.
PcallArgs == {<<0, 0, 0>>, <<1, -1, 0>>}
NoArgs == <<>>

\* What the original pcall returns for a call: it depends on nothing else.
OrigPcall(L, args) == <<"pcall", L, args>>

\* ------------------------------------------------------------------- state
VARIABLES
    envHasKey,            \* ANTHROPIC_API_KEY is set in the environment
    hksLoaded,            \* hks::pushnamedcclosure and hks::setfield were resolved
    g_apiKey,             \* "" or the key
    g_lastQueriedTurn,
    g_lastQueriedPlayer,
    g_cachedResponse,
    g_asyncState,
    g_asyncResponse,
    g_asyncError,
    g_asyncThread,        \* 0: not joinable, w: the std::thread of worker w
    g_asyncCancelled,
    worker,               \* worker thread w: [pc, snap, result]
    nLaunched,            \* std::thread objects constructed so far
    g_shutdownRequested,
    g_luaState,           \* the primary handle slot
    g_originalPcall,      \* "null" or "trampoline"
    g_pcallHookInstalled,
    g_registeredStates,
    g_registeredStatesMutex, \* "free" or the thread that holds it
    g_claudeAPIInitialized,
    mhHook,               \* MinHook's hook on pcall: "none", "created", "enabled"
    pc,                   \* thread t: position in its current call
    loc,                  \* thread t: locals of its current call
    ret,                  \* the call that ended in the last step, if one did
    terminated,           \* the process was terminated (std::terminate, fault)
    deliveries,           \* history: payloads handed out since the last reset by Start
    cancelSeen,           \* history: checkpoint at which a worker of this cycle read the flag as set
    scen,                 \* history: progress of the sequence Start, Cancel, Start
    served,               \* history: (turn, playerID) of the HttpPost calls since the last ResetTurnTracking
    lastLookup,           \* history: how the last turn cache lookup ended: "none", "hit", "miss"
    fnArg,                \* the text a text function is applied to
    fnRes,                \* what the function made of it
    bindings,             \* history: handle -> times the four callables were bound into it
    observed              \* history: non-null handles interception events carried

cacheVars == <<g_lastQueriedTurn, g_lastQueriedPlayer, g_cachedResponse>>
slotVars == <<g_asyncState, g_asyncResponse, g_asyncError>>
envVars == <<envHasKey, hksLoaded>>
threadVars == <<g_asyncThread, worker, nLaunched>>
engineHist == <<deliveries, cancelSeen, scen>>
callHist == <<served, lastLookup>>
fnVars == <<fnArg, fnRes>>
hookVars == <<g_shutdownRequested, g_luaState, g_originalPcall, g_pcallHookInstalled,
              g_registeredStates, g_registeredStatesMutex, g_claudeAPIInitialized,
              mhHook, bindings, observed>>
engineVars == <<g_apiKey, cacheVars, slotVars, threadVars, g_asyncCancelled, engineHist>>

vars == <<envVars, engineVars, callHist, fnVars, hookVars, pc, loc, ret, terminated>>

NoLoc == [snap |-> NoSnap, h |-> 0, L |-> NullState, args |-> NoArgs, attempt |-> 0]
NoRet == [t |-> "none", op |-> "none", arg |-> "none", val |-> "none"]
Unborn == [pc |-> "unborn", snap |-> NoSnap, result |-> ""]

\* Where a thread stands before it calls into the engine, and after.
CallLabel(t) == IF t = DllThread THEN "d_cancel" ELSE "ready"
ReturnLabel(t) ==
    CASE t = DllThread -> "d_cleanup"
      [] t = HostThread -> "h_ready"
      [] OTHER -> "ready"

RestLabel(t) ==
    CASE t = HostThread -> "h_ready"
      [] t = DllThread -> "d_ready"
      [] OTHER -> "ready"

\* A worker thread between its launch and its exit.
Running(w) == worker[w].pc \notin {"unborn", "exited", "joined"}
RunningWorkers == {w \in WorkerIds : Running(w)}

\* The state after construction of the module-scope objects; the
\* environment (the credential, the resolved exports) is any.
InitProgram ==
    /\ envHasKey \in BOOLEAN
    /\ hksLoaded \in BOOLEAN
    /\ g_apiKey = ""
    /\ g_lastQueriedTurn = -1
    /\ g_lastQueriedPlayer = -1
    /\ g_cachedResponse = ""
    /\ g_asyncState = Idle
    /\ g_asyncResponse = ""
    /\ g_asyncError = ""
    /\ g_asyncThread = 0
    /\ g_asyncCancelled = FALSE
    /\ worker = [w \in WorkerIds |-> Unborn]
    /\ nLaunched = 0
    /\ g_shutdownRequested = FALSE
    /\ g_luaState = NullState
    /\ g_originalPcall = "null"
    /\ g_pcallHookInstalled = FALSE
    /\ g_registeredStates = {}
    /\ g_registeredStatesMutex = "free"
    /\ g_claudeAPIInitialized = FALSE
    /\ mhHook = "none"
    /\ pc = [t \in AllThreads |-> RestLabel(t)]
    /\ loc = [t \in AllThreads |-> NoLoc]
    /\ ret = NoRet
    /\ terminated = FALSE
    /\ deliveries = 0
    /\ cancelSeen = "no"
    /\ scen = 0
    /\ served = {}
    /\ lastLookup = "none"
    /\ bindings = [h \in LuaStates |-> 0]
    /\ observed = {}

\* No text function is under study.
NoText == <<>>
NoRes == [stage |-> "none"]

Init == InitProgram /\ fnArg = NoText /\ fnRes = NoRes

Live == ~terminated

\* A call of thread t returns val.
Return(t, op, arg, val) ==
    /\ pc' = [pc EXCEPT ![t] = ReturnLabel(t)]
    /\ loc' = [loc EXCEPT ![t] = NoLoc]
    /\ ret' = [t |-> t, op |-> op, arg |-> arg, val |-> val]

\* Thread t moves on inside its call.
Goto(t, label) ==
    /\ pc' = [pc EXCEPT ![t] = label]
    /\ ret' = NoRet

\* Thread t's call ends the process: a call through an invalid pointer, or
\* std::terminate.
Fault(t, op, arg) ==
    /\ terminated' = TRUE
    /\ ret' = [t |-> t, op |-> op, arg |-> arg, val |-> <<"fault">>]
    /\ UNCHANGED <<pc, loc>>

\* ----------------------------------------------------- GetActionFromClaude
\* (variant) the key is not looked at.
GacPreNoKeyCheck(snap) ==
    IF /\ snap.turn >= 0 /\ snap.playerID >= 0
       /\ snap.turn = g_lastQueriedTurn
       /\ snap.playerID = g_lastQueriedPlayer
    THEN [kind |-> "return",
          result |-> IF g_cachedResponse # "" THEN g_cachedResponse
                     ELSE ActAlreadyQueried]
    ELSE IF ~snap.utf8
    THEN [kind |-> "throw", result |-> ""]
    ELSE [kind |-> "http", result |-> ""]

\* (variant) the lookup compares the turn only.
GacPreTurnOnly(snap) ==
    IF g_apiKey = ""
    THEN [kind |-> "return", result |-> ErrNoKey]
    ELSE IF /\ snap.turn >= 0 /\ snap.playerID >= 0
            /\ snap.turn = g_lastQueriedTurn
    THEN [kind |-> "return",
          result |-> IF g_cachedResponse # "" THEN g_cachedResponse
                     ELSE ActAlreadyQueried]
    ELSE IF ~snap.utf8
    THEN [kind |-> "throw", result |-> ""]
    ELSE [kind |-> "http", result |-> ""]

\* Up to the network call: the key check, the turn cache lookup and the
\* serialisation of the request body (json::dump throws type_error 316 on
\* text that is not UTF-8, outside every try block of the function).
GacPre(snap) ==
    IF g_apiKey = ""
    THEN [kind |-> "return", result |-> ErrNoKey]
    ELSE IF /\ snap.turn >= 0 /\ snap.playerID >= 0
            /\ snap.turn = g_lastQueriedTurn
            /\ snap.playerID = g_lastQueriedPlayer
    THEN [kind |-> "return",
          result |-> IF g_cachedResponse # "" THEN g_cachedResponse
                     ELSE ActAlreadyQueried]
    ELSE IF ~snap.utf8
    THEN [kind |-> "throw", result |-> ""]
    ELSE [kind |-> "http", result |-> ""]

\* How the turn cache lookup of GacPre ended, where it was reached.
LookupAfter(snap) ==
    IF g_apiKey = "" THEN lastLookup
    ELSE IF /\ snap.turn >= 0 /\ snap.playerID >= 0
            /\ snap.turn = g_lastQueriedTurn
            /\ snap.playerID = g_lastQueriedPlayer
    THEN "hit" ELSE "miss"

\* From the reply on: the result string, and whether the cache is written.
GacResult(reply) ==
    CASE reply.kind = "empty" -> ErrEmpty
      [] reply.kind = "error" -> ErrRateLimited
      [] OTHER -> reply.text

\* (variant) the service's error object is cached like an answer.
GacStoresErrors(reply) == reply.kind \in {"content", "error"}

GacStores(reply) == reply.kind = "content"

GacPost(snap, reply) ==
    IF GacStores(reply)
    THEN /\ g_lastQueriedTurn' = snap.turn
         /\ g_lastQueriedPlayer' = snap.playerID
         /\ g_cachedResponse' = GacResult(reply)
    ELSE UNCHANGED cacheVars

\* The blocking call on a runtime thread. `label` is where the caller
\* stands when it calls.
GacCallFrom(t, snap, label) ==
    /\ Live /\ pc[t] = label
    /\ LET r == GacPre(snap) IN
         CASE r.kind = "return" ->
                Return(t, "GetActionFromClaude", snap, r.result)
           [] r.kind = "throw" ->
                /\ Goto(t, "gac_throw")
                /\ loc' = [loc EXCEPT ![t].snap = snap]
           [] OTHER ->
                /\ Goto(t, "gac_http")
                /\ loc' = [loc EXCEPT ![t].snap = snap]
    /\ lastLookup' = LookupAfter(snap)
    /\ scen' = 0
    /\ UNCHANGED <<fnVars, served, envVars, hookVars, terminated, g_apiKey, cacheVars,
                   slotVars, threadVars, g_asyncCancelled, deliveries,
                   cancelSeen>>

GetActionFromClaude(t, snap) == GacCallFrom(t, snap, "ready")

\* The type_error of json::dump leaves GetActionFromClaude and its caller,
\* a C function the host's interpreter called: the interpreter either
\* turns it into a script error or the process ends.
GacThrow(t, caught) ==
    /\ Live /\ pc[t] = "gac_throw"
    /\ IF caught
       THEN /\ Return(t, "GetActionFromClaude", loc[t].snap, <<"throw">>)
            /\ UNCHANGED terminated
       ELSE Fault(t, "GetActionFromClaude", loc[t].snap)
    /\ UNCHANGED <<fnVars, callHist, envVars, hookVars, engineVars>>

\* HttpPost returns `reply`; the rest of GetActionFromClaude runs.
GacHttp(t, reply) ==
    /\ Live /\ pc[t] = "gac_http"
    /\ GacPost(loc[t].snap, reply)
    /\ served' = served \cup {TurnKey(loc[t].snap)}
    /\ UNCHANGED lastLookup
    /\ Return(t, "GetActionFromClaude", loc[t].snap, GacResult(reply))
    /\ UNCHANGED <<fnVars, envVars, hookVars, terminated, g_apiKey, slotVars,
                   threadVars, g_asyncCancelled, engineHist>>

\* -------------------------------------------------------- ResetTurnTracking
ResetTurnTracking(t) ==
    /\ Live /\ pc[t] = "ready"
    /\ g_lastQueriedTurn' = -1
    /\ g_lastQueriedPlayer' = -1
    /\ g_cachedResponse' = ""
    /\ served' = {}
    /\ lastLookup' = "none"
    /\ Return(t, "ResetTurnTracking", "none", "void")
    /\ scen' = 0
    /\ UNCHANGED <<fnVars, envVars, hookVars, terminated, g_apiKey, slotVars,
                   threadVars, g_asyncCancelled, deliveries, cancelSeen>>

\* -------------------------------------------------------------- Initialize
\* Loads the key from the environment when none is held.
InitializeOk == g_apiKey # "" \/ envHasKey
KeyAfterInitialize == IF g_apiKey = "" /\ envHasKey THEN "key" ELSE g_apiKey

\* ------------------------------------------------------- AsyncWorkerThread
SetWorker(w, label, result) ==
    worker' = [worker EXCEPT ![w].pc = label, ![w].result = result]

\* First checkpoint: g_asyncCancelled.load() before the work.
WorkerCheckBefore(w) ==
    /\ Live /\ worker[w].pc = "w_start"
    /\ SetWorker(w, IF g_asyncCancelled THEN "w_cancelled" ELSE "w_gac", "")
    /\ cancelSeen' = IF g_asyncCancelled THEN "before" ELSE cancelSeen
    /\ ret' = NoRet
    /\ UNCHANGED <<fnVars, callHist, envVars, hookVars, pc, loc, terminated, g_apiKey, cacheVars,
                   slotVars, g_asyncThread, nLaunched, g_asyncCancelled,
                   deliveries, scen>>

\* Cancellation observed: under the lock, state := Idle, then return.
WorkerCancelled(w) ==
    /\ Live /\ worker[w].pc = "w_cancelled"
    /\ g_asyncState' = Idle
    /\ SetWorker(w, "w_return", "")
    /\ ret' = NoRet
    /\ UNCHANGED <<fnVars, callHist, envVars, hookVars, pc, loc, terminated, g_apiKey, cacheVars,
                   g_asyncResponse, g_asyncError, g_asyncThread, nLaunched,
                   g_asyncCancelled, engineHist>>

\* GetActionFromClaude up to HttpPost.
WorkerGacPre(w) ==
    /\ Live /\ worker[w].pc = "w_gac"
    /\ LET r == GacPre(worker[w].snap) IN
         SetWorker(w, CASE r.kind = "return" -> "w_check"
                        [] r.kind = "throw" -> "w_catch"
                        [] OTHER -> "w_http", r.result)
    /\ lastLookup' = LookupAfter(worker[w].snap)
    /\ ret' = NoRet
    /\ UNCHANGED <<fnVars, served, envVars, hookVars, pc, loc, terminated, g_apiKey, cacheVars,
                   slotVars, g_asyncThread, nLaunched, g_asyncCancelled,
                   engineHist>>

\* HttpPost returns `reply`; the rest of GetActionFromClaude runs.
WorkerHttp(w, reply) ==
    /\ Live /\ worker[w].pc = "w_http"
    /\ GacPost(worker[w].snap, reply)
    /\ served' = served \cup {TurnKey(worker[w].snap)}
    /\ UNCHANGED lastLookup
    /\ SetWorker(w, "w_check", GacResult(reply))
    /\ ret' = NoRet
    /\ UNCHANGED <<fnVars, envVars, hookVars, pc, loc, terminated, g_apiKey, slotVars,
                   g_asyncThread, nLaunched, g_asyncCancelled, engineHist>>

\* (variant) the second checkpoint reads the flag and publishes all the same.
WorkerCheckAfterPublishes(w) ==
    /\ Live /\ worker[w].pc = "w_check"
    /\ worker' = [worker EXCEPT ![w].pc = "w_publish"]
    /\ cancelSeen' = IF g_asyncCancelled THEN "after" ELSE cancelSeen
    /\ ret' = NoRet
    /\ UNCHANGED <<fnVars, callHist, envVars, hookVars, pc, loc, terminated, g_apiKey, cacheVars,
                   slotVars, g_asyncThread, nLaunched, g_asyncCancelled,
                   deliveries, scen>>

\* Second checkpoint: g_asyncCancelled.load() after the work.
WorkerCheckAfter(w) ==
    /\ Live /\ worker[w].pc = "w_check"
    /\ worker' = [worker EXCEPT ![w].pc =
                    IF g_asyncCancelled THEN "w_cancelled" ELSE "w_publish"]
    /\ cancelSeen' = IF g_asyncCancelled THEN "after" ELSE cancelSeen
    /\ ret' = NoRet
    /\ UNCHANGED <<fnVars, callHist, envVars, hookVars, pc, loc, terminated, g_apiKey, cacheVars,
                   slotVars, g_asyncThread, nLaunched, g_asyncCancelled,
                   deliveries, scen>>

\* Store the result under the lock: Failed when the result carries "error".
PublishedState(result) == IF ContainsError(result) THEN Failed ELSE Ready

\* (variant) the result is stored and the state is left as it is.
WorkerPublishKeepsPending(w) ==
    /\ Live /\ worker[w].pc = "w_publish"
    /\ g_asyncResponse' = worker[w].result
    /\ g_asyncError' = IF ContainsError(worker[w].result)
                       THEN ErrorTextOf(worker[w].result) ELSE g_asyncError
    /\ UNCHANGED g_asyncState
    /\ worker' = [worker EXCEPT ![w].pc = "w_return"]
    /\ ret' = NoRet
    /\ UNCHANGED <<fnVars, callHist, envVars, hookVars, pc, loc, terminated, g_apiKey, cacheVars,
                   g_asyncThread, nLaunched, g_asyncCancelled, engineHist>>

WorkerPublish(w) ==
    /\ Live /\ worker[w].pc = "w_publish"
    /\ g_asyncResponse' = worker[w].result
    /\ g_asyncError' = IF ContainsError(worker[w].result)
                       THEN ErrorTextOf(worker[w].result) ELSE g_asyncError
    /\ g_asyncState' = PublishedState(worker[w].result)
    /\ worker' = [worker EXCEPT ![w].pc = "w_return"]
    /\ ret' = NoRet
    /\ UNCHANGED <<fnVars, callHist, envVars, hookVars, pc, loc, terminated, g_apiKey, cacheVars,
                   g_asyncThread, nLaunched, g_asyncCancelled, engineHist>>

\* catch (const std::exception&): Failed with the exception's description.
ExceptionText == "Exception: [json.exception.type_error.316] invalid UTF-8 byte"

\* (variant) the handler records the description and leaves the state.
WorkerCatchKeepsState(w) ==
    /\ Live /\ worker[w].pc = "w_catch"
    /\ g_asyncError' = ExceptionText
    /\ UNCHANGED g_asyncState
    /\ worker' = [worker EXCEPT ![w].pc = "w_return"]
    /\ ret' = NoRet
    /\ UNCHANGED <<fnVars, callHist, envVars, hookVars, pc, loc, terminated, g_apiKey, cacheVars,
                   g_asyncResponse, g_asyncThread, nLaunched, g_asyncCancelled,
                   engineHist>>

WorkerCatch(w) ==
    /\ Live /\ worker[w].pc = "w_catch"
    /\ g_asyncError' = ExceptionText
    /\ g_asyncState' = Failed
    /\ worker' = [worker EXCEPT ![w].pc = "w_return"]
    /\ ret' = NoRet
    /\ UNCHANGED <<fnVars, callHist, envVars, hookVars, pc, loc, terminated, g_apiKey, cacheVars,
                   g_asyncResponse, g_asyncThread, nLaunched, g_asyncCancelled,
                   engineHist>>

\* The thread function returns and the thread ends.
WorkerExit(w) ==
    /\ Live /\ worker[w].pc = "w_return"
    /\ worker' = [worker EXCEPT ![w] = [pc |-> "exited", snap |-> NoSnap, result |-> ""]]
    /\ ret' = NoRet
    /\ UNCHANGED <<fnVars, callHist, envVars, hookVars, pc, loc, terminated, g_apiKey, cacheVars,
                   slotVars, g_asyncThread, nLaunched, g_asyncCancelled,
                   engineHist>>

\* -------------------------------------------------------- std::thread::join
\* join() on the handle read at the joinable() test returns once that
\* worker has exited, and leaves g_asyncThread not joinable.  A second join
\* of a thread already joined by another caller (a data race on
\* g_asyncThread) either still succeeds or throws std::system_error, which
\* nothing catches.
\* (variant) join returns only for a thread that was joined before.
JoinReturnsOnlyJoined(h) == worker[h].pc = "joined"

JoinReturns(h) == worker[h].pc \in {"exited", "joined"}

JoinEffect(h, throws) ==
    /\ g_asyncThread' = 0
    /\ worker' = [worker EXCEPT ![h].pc = "joined"]
    /\ terminated' = (worker[h].pc = "joined" /\ throws)

\* -------------------------------------------------------- StartAsyncRequest
\* (variant) a pending request does not refuse the call.
StartCheckNoRefusal(t, snap) ==
    /\ Live /\ pc[t] = "ready"
    /\ nLaunched < MaxLaunch
    /\ Goto(t, "start_join")
    /\ loc' = [loc EXCEPT ![t].snap = snap]
    /\ scen' = IF scen = 3 THEN 4 ELSE 0
    /\ UNCHANGED <<fnVars, callHist, envVars, hookVars, terminated, g_apiKey, cacheVars, slotVars,
                   threadVars, g_asyncCancelled, deliveries, cancelSeen>>

\* g_asyncState.load(); a pending request refuses the call.
StartCheckFrom(t, snap, label) ==
    /\ Live /\ pc[t] = label
    /\ nLaunched < MaxLaunch
    /\ IF g_asyncState = Pending
       THEN /\ Return(t, "Start", snap, FALSE)
       ELSE /\ Goto(t, "start_join")
            /\ loc' = [loc EXCEPT ![t].snap = snap]
    /\ scen' = IF scen = 3 THEN 4 ELSE 0
    /\ UNCHANGED <<fnVars, callHist, envVars, hookVars, terminated, g_apiKey, cacheVars, slotVars,
                   threadVars, g_asyncCancelled, deliveries, cancelSeen>>

StartCheck(t, snap) == StartCheckFrom(t, snap, "ready")

\* if (g_asyncThread.joinable()): read the handle to join.
StartJoinable(t) ==
    /\ Live /\ pc[t] = "start_join"
    /\ Goto(t, IF g_asyncThread # 0 THEN "start_joining" ELSE "start_reset")
    /\ loc' = [loc EXCEPT ![t].h = g_asyncThread]
    /\ UNCHANGED <<fnVars, callHist, envVars, hookVars, terminated, g_apiKey, cacheVars, slotVars,
                   threadVars, g_asyncCancelled, engineHist>>

\* g_asyncThread.join() returns.
StartJoin(t, throws) ==
    /\ Live /\ pc[t] = "start_joining"
    /\ JoinReturns(loc[t].h)
    /\ JoinEffect(loc[t].h, throws)
    /\ Goto(t, "start_reset")
    /\ loc' = [loc EXCEPT ![t].h = 0]
    /\ UNCHANGED <<fnVars, callHist, envVars, hookVars, g_apiKey, cacheVars, slotVars, nLaunched,
                   g_asyncCancelled, engineHist>>

\* (variant) the reset leaves the cancellation flag as it is.
StartResetKeepsFlag(t) ==
    /\ Live /\ pc[t] = "start_reset"
    /\ IF InitializeOk
       THEN /\ g_apiKey' = KeyAfterInitialize
            /\ g_asyncResponse' = ""
            /\ g_asyncError' = ""
            /\ UNCHANGED g_asyncCancelled
            /\ g_asyncState' = Pending
            /\ deliveries' = 0
            /\ cancelSeen' = "no"
            /\ Goto(t, "start_launch")
            /\ UNCHANGED loc
       ELSE /\ g_asyncError' = "Failed to initialize API"
            /\ g_asyncState' = Failed
            /\ Return(t, "Start", loc[t].snap, FALSE)
            /\ UNCHANGED <<g_apiKey, g_asyncResponse, g_asyncCancelled,
                           deliveries, cancelSeen>>
    /\ UNCHANGED <<fnVars, callHist, envVars, hookVars, terminated, cacheVars, threadVars, scen>>

\* (variant) the reset leaves the error slot as it is.
StartResetKeepsError(t) ==
    /\ Live /\ pc[t] = "start_reset"
    /\ IF InitializeOk
       THEN /\ g_apiKey' = KeyAfterInitialize
            /\ g_asyncResponse' = ""
            /\ UNCHANGED g_asyncError
            /\ g_asyncCancelled' = FALSE
            /\ g_asyncState' = Pending
            /\ deliveries' = 0
            /\ cancelSeen' = "no"
            /\ Goto(t, "start_launch")
            /\ UNCHANGED loc
       ELSE /\ g_asyncError' = "Failed to initialize API"
            /\ g_asyncState' = Failed
            /\ Return(t, "Start", loc[t].snap, FALSE)
            /\ UNCHANGED <<g_apiKey, g_asyncResponse, g_asyncCancelled,
                           deliveries, cancelSeen>>
    /\ UNCHANGED <<fnVars, callHist, envVars, hookVars, terminated, cacheVars, threadVars, scen>>

\* (variant) the reset leaves the state as it is.
StartResetNoPending(t) ==
    /\ Live /\ pc[t] = "start_reset"
    /\ IF InitializeOk
       THEN /\ g_apiKey' = KeyAfterInitialize
            /\ g_asyncResponse' = ""
            /\ g_asyncError' = ""
            /\ g_asyncCancelled' = FALSE
            /\ UNCHANGED g_asyncState
            /\ deliveries' = 0
            /\ cancelSeen' = "no"
            /\ Goto(t, "start_launch")
            /\ UNCHANGED loc
       ELSE /\ g_asyncError' = "Failed to initialize API"
            /\ g_asyncState' = Failed
            /\ Return(t, "Start", loc[t].snap, FALSE)
            /\ UNCHANGED <<g_apiKey, g_asyncResponse, g_asyncCancelled,
                           deliveries, cancelSeen>>
    /\ UNCHANGED <<fnVars, callHist, envVars, hookVars, terminated, cacheVars, threadVars, scen>>

\* (variant) the reset leaves the payload slot as it is.
StartResetKeepsPayload(t) ==
    /\ Live /\ pc[t] = "start_reset"
    /\ IF InitializeOk
       THEN /\ g_apiKey' = KeyAfterInitialize
            /\ UNCHANGED g_asyncResponse
            /\ g_asyncError' = ""
            /\ g_asyncCancelled' = FALSE
            /\ g_asyncState' = Pending
            /\ deliveries' = 0
            /\ cancelSeen' = "no"
            /\ Goto(t, "start_launch")
            /\ UNCHANGED loc
       ELSE /\ g_asyncError' = "Failed to initialize API"
            /\ g_asyncState' = Failed
            /\ Return(t, "Start", loc[t].snap, FALSE)
            /\ UNCHANGED <<g_apiKey, g_asyncResponse, g_asyncCancelled,
                           deliveries, cancelSeen>>
    /\ UNCHANGED <<fnVars, callHist, envVars, hookVars, terminated, cacheVars, threadVars, scen>>

\* Initialize if needed, then reset the slots under the lock; a failed
\* Initialize stores the error, sets Failed and returns false.
StartReset(t) ==
    /\ Live /\ pc[t] = "start_reset"
    /\ IF InitializeOk
       THEN /\ g_apiKey' = KeyAfterInitialize
            /\ g_asyncResponse' = ""
            /\ g_asyncError' = ""
            /\ g_asyncCancelled' = FALSE
            /\ g_asyncState' = Pending
            /\ deliveries' = 0
            /\ cancelSeen' = "no"
            /\ Goto(t, "start_launch")
            /\ UNCHANGED loc
       ELSE /\ g_asyncError' = "Failed to initialize API"
            /\ g_asyncState' = Failed
            /\ Return(t, "Start", loc[t].snap, FALSE)
            /\ UNCHANGED <<g_apiKey, g_asyncResponse, g_asyncCancelled,
                           deliveries, cancelSeen>>
    /\ UNCHANGED <<fnVars, callHist, envVars, hookVars, terminated, cacheVars, threadVars, scen>>

\* std::thread(AsyncWorkerThread, gameStateJson): the new thread runs.
StartLaunch(t) ==
    /\ Live /\ pc[t] = "start_launch"
    /\ nLaunched < MaxLaunch
    /\ nLaunched' = nLaunched + 1
    /\ worker' = [worker EXCEPT ![nLaunched + 1] =
                    [pc |-> "w_start", snap |-> loc[t].snap, result |-> ""]]
    /\ Goto(t, "start_assign")
    /\ loc' = [loc EXCEPT ![t].h = nLaunched + 1]
    /\ UNCHANGED <<fnVars, callHist, envVars, hookVars, terminated, g_apiKey, cacheVars, slotVars,
                   g_asyncThread, g_asyncCancelled, engineHist>>

\* g_asyncThread = std::move(...): a joinable target calls std::terminate.
StartAssignCheck(t) ==
    /\ Live /\ pc[t] = "start_assign"
    /\ terminated' = (g_asyncThread # 0)
    /\ Goto(t, "start_store")
    /\ UNCHANGED <<fnVars, callHist, envVars, hookVars, loc, g_apiKey, cacheVars, slotVars,
                   threadVars, g_asyncCancelled, engineHist>>

\* ... otherwise the handle is stored, and Start returns true.
StartAssignStore(t) ==
    /\ Live /\ pc[t] = "start_store"
    /\ g_asyncThread' = loc[t].h
    /\ Return(t, "Start", loc[t].snap, TRUE)
    /\ scen' = IF scen = 4 THEN 5 ELSE 1
    /\ UNCHANGED <<fnVars, callHist, envVars, hookVars, terminated, g_apiKey, cacheVars, slotVars,
                   worker, nLaunched, g_asyncCancelled, deliveries, cancelSeen>>

\* ------------------------------------------------------------ GetAsyncState
GetAsyncState(t) ==
    /\ Live /\ pc[t] = "ready"
    /\ Return(t, "GetAsyncState", "none", g_asyncState)
    /\ scen' = 0
    /\ UNCHANGED <<fnVars, callHist, envVars, hookVars, terminated, g_apiKey, cacheVars, slotVars,
                   threadVars, g_asyncCancelled, deliveries, cancelSeen>>

\* (variant) the payload slot is handed out whatever the state.
GetAsyncResponseAnyState(t) ==
    /\ Live /\ pc[t] = "ready"
    /\ Return(t, "GetAsyncResponse", "none", g_asyncResponse)
    /\ g_asyncResponse' = ""
    /\ g_asyncState' = Idle
    /\ deliveries' = deliveries + (IF g_asyncResponse # "" THEN 1 ELSE 0)
    /\ scen' = 0
    /\ UNCHANGED <<fnVars, callHist, envVars, hookVars, terminated, g_apiKey, cacheVars,
                   threadVars, g_asyncCancelled, cancelSeen, g_asyncError>>

\* --------------------------------------------------------- GetAsyncResponse
GetAsyncResponse(t) ==
    /\ Live /\ pc[t] = "ready"
    /\ IF g_asyncState # Ready
       THEN /\ Return(t, "GetAsyncResponse", "none", "")
            /\ UNCHANGED <<slotVars, deliveries>>
       ELSE /\ Return(t, "GetAsyncResponse", "none", g_asyncResponse)
            /\ g_asyncResponse' = ""
            /\ g_asyncState' = Idle
            /\ deliveries' = deliveries + (IF g_asyncResponse # "" THEN 1 ELSE 0)
            /\ UNCHANGED g_asyncError
    /\ scen' = 0
    /\ UNCHANGED <<fnVars, callHist, envVars, hookVars, terminated, g_apiKey, cacheVars,
                   threadVars, g_asyncCancelled, cancelSeen>>

\* ------------------------------------------------------------ GetAsyncError
GetAsyncError(t) ==
    /\ Live /\ pc[t] = "ready"
    /\ Return(t, "GetAsyncError", "none", g_asyncError)
    /\ scen' = 0
    /\ UNCHANGED <<fnVars, callHist, envVars, hookVars, terminated, g_apiKey, cacheVars, slotVars,
                   threadVars, g_asyncCancelled, deliveries, cancelSeen>>

\* ------------------------------------------------------- CancelAsyncRequest
\* The request's worker has not reached HttpPost.
BeforeNetworkCall ==
    /\ g_asyncThread # 0
    /\ worker[g_asyncThread].pc \in {"w_start", "w_gac"}

\* g_asyncCancelled.store(true)
CancelFlag(t) ==
    /\ Live /\ pc[t] = CallLabel(t)
    /\ g_asyncCancelled' = TRUE
    /\ Goto(t, "cancel_join")
    /\ scen' = IF scen \in {1, 5} /\ BeforeNetworkCall THEN 2 ELSE 0
    /\ UNCHANGED <<fnVars, callHist, envVars, hookVars, loc, terminated, g_apiKey, cacheVars,
                   slotVars, threadVars, deliveries, cancelSeen>>

\* (variant) Cancel does not wait for the worker.
CancelJoinableSkips(t) ==
    /\ Live /\ pc[t] = "cancel_join"
    /\ Goto(t, "cancel_reset")
    /\ loc' = [loc EXCEPT ![t].h = g_asyncThread]
    /\ UNCHANGED <<fnVars, callHist, envVars, hookVars, terminated, g_apiKey, cacheVars, slotVars,
                   threadVars, g_asyncCancelled, engineHist>>

\* if (g_asyncThread.joinable())
CancelJoinable(t) ==
    /\ Live /\ pc[t] = "cancel_join"
    /\ Goto(t, IF g_asyncThread # 0 THEN "cancel_joining" ELSE "cancel_reset")
    /\ loc' = [loc EXCEPT ![t].h = g_asyncThread]
    /\ UNCHANGED <<fnVars, callHist, envVars, hookVars, terminated, g_apiKey, cacheVars, slotVars,
                   threadVars, g_asyncCancelled, engineHist>>

\* g_asyncThread.join() returns.
CancelJoin(t, throws) ==
    /\ Live /\ pc[t] = "cancel_joining"
    /\ JoinReturns(loc[t].h)
    /\ JoinEffect(loc[t].h, throws)
    /\ Goto(t, "cancel_reset")
    /\ loc' = [loc EXCEPT ![t].h = 0]
    /\ UNCHANGED <<fnVars, callHist, envVars, hookVars, g_apiKey, cacheVars, slotVars, nLaunched,
                   g_asyncCancelled, engineHist>>

\* (variant) Cancel leaves the error slot as it is.
CancelResetKeepsError(t) ==
    /\ Live /\ pc[t] = "cancel_reset"
    /\ g_asyncState' = Idle
    /\ g_asyncResponse' = ""
    /\ Return(t, "Cancel", "none", "void")
    /\ scen' = IF scen = 2 THEN 3 ELSE 0
    /\ UNCHANGED <<fnVars, callHist, envVars, hookVars, terminated, g_apiKey, cacheVars,
                   threadVars, g_asyncCancelled, deliveries, cancelSeen,
                   g_asyncError>>

\* Under the lock: state := Idle, both slots cleared; Cancel returns.
CancelReset(t) ==
    /\ Live /\ pc[t] = "cancel_reset"
    /\ g_asyncState' = Idle
    /\ g_asyncResponse' = ""
    /\ g_asyncError' = ""
    /\ Return(t, "Cancel", "none", "void")
    /\ scen' = IF scen = 2 THEN 3 ELSE 0
    /\ UNCHANGED <<fnVars, callHist, envVars, hookVars, terminated, g_apiKey, cacheVars,
                   threadVars, g_asyncCancelled, deliveries, cancelSeen>>

\* ------------------------------------------------- engine specifications
CallerStep(t) ==
    \/ \E snap \in Snapshots : StartCheck(t, snap)
    \/ StartJoinable(t)
    \/ \E throws \in BOOLEAN : StartJoin(t, throws)
    \/ StartReset(t)
    \/ StartLaunch(t)
    \/ StartAssignCheck(t)
    \/ StartAssignStore(t)
    \/ GetAsyncState(t)
    \/ GetAsyncResponse(t)
    \/ GetAsyncError(t)
    \/ CancelFlag(t)
    \/ CancelJoinable(t)
    \/ \E throws \in BOOLEAN : CancelJoin(t, throws)
    \/ CancelReset(t)

WorkerStep(w) ==
    \/ WorkerCheckBefore(w)
    \/ WorkerCancelled(w)
    \/ WorkerGacPre(w)
    \/ \E reply \in Replies : WorkerHttp(w, reply)
    \/ WorkerCheckAfter(w)
    \/ WorkerPublish(w)
    \/ WorkerCatch(w)
    \/ WorkerExit(w)

\* The engine reads nothing of the host's exports: they are held fixed.
InitEngine == Init /\ hksLoaded

\* Any runtime thread may call the engine at any time.
Next ==
    \/ \E t \in Threads : CallerStep(t)
    \/ \E w \in WorkerIds : WorkerStep(w)

Spec == InitEngine /\ [][Next]_vars

\* One logical runtime thread issues the calls, one after the other.
NextSeq ==
    \/ \E t \in SeqThreads : CallerStep(t)
    \/ \E w \in WorkerIds : WorkerStep(w)

SpecSeq == InitEngine /\ [][NextSeq]_vars

\* The same where every worker thread keeps running (HttpPost returns)
\* and a Cancel call that can go on does.
CancelStep(t) ==
    \/ CancelJoinable(t)
    \/ \E throws \in BOOLEAN : CancelJoin(t, throws)
    \/ CancelReset(t)

SpecCancel ==
    /\ InitEngine /\ [][NextSeq]_vars
    /\ \A w \in WorkerIds : WF_vars(WorkerStep(w))
    /\ \A t \in SeqThreads : WF_vars(CancelStep(t))

\* One runtime thread calls at its own pace; every worker thread keeps
\* running and its HttpPost returns.
SpecWorkerFair ==
    /\ InitEngine /\ [][NextSeq]_vars
    /\ \A w \in WorkerIds : WF_vars(WorkerStep(w))

\* The turn cache: one logical runtime thread issues blocking queries,
\* async requests and resets, for snapshots of several turns and players.
CacheCallerStep(t) ==
    \/ \E snap \in CacheSnapshots : GetActionFromClaude(t, snap)
    \/ \E caught \in BOOLEAN : GacThrow(t, caught)
    \/ \E reply \in Replies : GacHttp(t, reply)
    \/ ResetTurnTracking(t)
    \/ \E snap \in CacheSnapshots : StartCheck(t, snap)
    \/ StartJoinable(t)
    \/ \E throws \in BOOLEAN : StartJoin(t, throws)
    \/ StartReset(t)
    \/ StartLaunch(t)
    \/ StartAssignCheck(t)
    \/ StartAssignStore(t)
    \/ GetAsyncResponse(t)
    \/ GetAsyncError(t)
    \/ CancelFlag(t)
    \/ CancelJoinable(t)
    \/ \E throws \in BOOLEAN : CancelJoin(t, throws)
    \/ CancelReset(t)

NextCache ==
    \/ \E t \in SeqThreads : CacheCallerStep(t)
    \/ \E w \in WorkerIds : WorkerStep(w)

SpecCache == InitEngine /\ [][NextCache]_vars

\* The turn cache written by the worker beside a blocking query on the
\* runtime thread. The three variables are plain objects that no lock
\* covers: the worker's three assignments are three steps, and the other
\* thread can run between them. The service's answer to a snapshot
\* depends on its turn key, so that a payload tells which query it is of.
RaceSnapshots == {SnapTurn5, SnapTurn6, SnapPlayer1}
AnswerFor(key) ==
    CASE key = TurnKey(SnapTurn5) -> ActEndTurn
      [] key = TurnKey(SnapTurn6) -> ActFull
      [] OTHER -> ActLong
ReplyFor(snap) == [kind |-> "content", text |-> AnswerFor(TurnKey(snap))]

\* HttpPost returns `reply`; the rest of GetActionFromClaude up to
\* g_lastQueriedTurn = currentTurn.
WorkerHttpTurn(w, reply) ==
    /\ Live /\ worker[w].pc = "w_http"
    /\ IF GacStores(reply)
       THEN /\ g_lastQueriedTurn' = worker[w].snap.turn
            /\ SetWorker(w, "w_store_player", GacResult(reply))
       ELSE /\ UNCHANGED g_lastQueriedTurn
            /\ SetWorker(w, "w_check", GacResult(reply))
    /\ served' = served \cup {TurnKey(worker[w].snap)}
    /\ ret' = NoRet
    /\ UNCHANGED <<fnVars, envVars, hookVars, pc, loc, terminated, g_apiKey, slotVars,
                   g_asyncThread, nLaunched, g_asyncCancelled, engineHist,
                   lastLookup, g_lastQueriedPlayer, g_cachedResponse>>

\* g_lastQueriedPlayer = currentPlayer
WorkerStorePlayer(w) ==
    /\ Live /\ worker[w].pc = "w_store_player"
    /\ g_lastQueriedPlayer' = worker[w].snap.playerID
    /\ worker' = [worker EXCEPT ![w].pc = "w_store_response"]
    /\ ret' = NoRet
    /\ UNCHANGED <<fnVars, envVars, hookVars, pc, loc, terminated, g_apiKey, slotVars,
                   g_asyncThread, nLaunched, g_asyncCancelled, engineHist,
                   callHist, g_lastQueriedTurn, g_cachedResponse>>

\* g_cachedResponse = result; GetActionFromClaude returns.
WorkerStoreResponse(w) ==
    /\ Live /\ worker[w].pc = "w_store_response"
    /\ g_cachedResponse' = worker[w].result
    /\ worker' = [worker EXCEPT ![w].pc = "w_check"]
    /\ ret' = NoRet
    /\ UNCHANGED <<fnVars, envVars, hookVars, pc, loc, terminated, g_apiKey, slotVars,
                   g_asyncThread, nLaunched, g_asyncCancelled, engineHist,
                   callHist, g_lastQueriedTurn, g_lastQueriedPlayer>>

NextCacheRace ==
    \/ \E t \in SeqThreads :
         \/ \E snap \in RaceSnapshots : GetActionFromClaude(t, snap)
         \/ GacHttp(t, ReplyFor(loc[t].snap))
         \/ \E snap \in RaceSnapshots : StartCheck(t, snap)
         \/ StartJoinable(t)
         \/ \E throws \in BOOLEAN : StartJoin(t, throws)
         \/ StartReset(t)
         \/ StartLaunch(t)
         \/ StartAssignCheck(t)
         \/ StartAssignStore(t)
    \/ \E w \in WorkerIds :
         \/ WorkerCheckBefore(w)
         \/ WorkerGacPre(w)
         \/ WorkerHttpTurn(w, ReplyFor(worker[w].snap))
         \/ WorkerStorePlayer(w)
         \/ WorkerStoreResponse(w)
         \/ WorkerCheckAfter(w)
         \/ WorkerPublish(w)
         \/ WorkerExit(w)

SpecCacheRace == InitEngine /\ [][NextCacheRace]_vars

\* -------------------------------------------------------------- HookedPcall
\* (variant) a plain store: every non-null handle overwrites the slot.
HookEnterLastWins(t, L, args) ==
    /\ Live /\ pc[t] = "ready"
    /\ mhHook = "enabled"
    /\ g_luaState' = IF L # NullState THEN L ELSE g_luaState
    /\ observed' = IF L # NullState THEN observed \cup {L} ELSE observed
    /\ Goto(t, "hook_check")
    /\ loc' = [loc EXCEPT ![t].L = L, ![t].args = args]
    /\ UNCHANGED <<fnVars, callHist, envVars, engineVars, terminated, g_shutdownRequested,
                   g_originalPcall, g_pcallHookInstalled, g_registeredStates,
                   g_registeredStatesMutex, g_claudeAPIInitialized, mhHook,
                   bindings>>

\* The patched pcall is entered with (L, nargs, nresults, errfunc); the
\* compare-exchange captures the first non-null handle.
HookEnter(t, L, args) ==
    /\ Live /\ pc[t] = "ready"
    /\ mhHook = "enabled"
    /\ g_luaState' = IF L # NullState /\ g_luaState = NullState THEN L ELSE g_luaState
    /\ observed' = IF L # NullState THEN observed \cup {L} ELSE observed
    /\ Goto(t, "hook_check")
    /\ loc' = [loc EXCEPT ![t].L = L, ![t].args = args]
    /\ UNCHANGED <<fnVars, callHist, envVars, engineVars, terminated, g_shutdownRequested,
                   g_originalPcall, g_pcallHookInstalled, g_registeredStates,
                   g_registeredStatesMutex, g_claudeAPIInitialized, mhHook,
                   bindings>>

\* The same in its two steps, for teardown running beside the call: the
\* call of pcall arrives in the patched function while the hook is enabled,
\* and the compare-exchange follows.
HookCall(t, L, args) ==
    /\ Live /\ pc[t] = "ready"
    /\ mhHook = "enabled"
    /\ Goto(t, "hook_cas")
    /\ loc' = [loc EXCEPT ![t].L = L, ![t].args = args]
    /\ UNCHANGED <<fnVars, callHist, envVars, engineVars, hookVars, terminated>>

HookCas(t) ==
    /\ Live /\ pc[t] = "hook_cas"
    /\ g_luaState' = IF loc[t].L # NullState /\ g_luaState = NullState
                     THEN loc[t].L ELSE g_luaState
    /\ observed' = IF loc[t].L # NullState THEN observed \cup {loc[t].L} ELSE observed
    /\ Goto(t, "hook_check")
    /\ UNCHANGED <<fnVars, callHist, envVars, engineVars, loc, terminated,
                   g_shutdownRequested, g_originalPcall, g_pcallHookInstalled,
                   g_registeredStates, g_registeredStatesMutex,
                   g_claudeAPIInitialized, mhHook, bindings>>

\* if (L && !g_shutdownRequested.load())
HookCheck(t) ==
    /\ Live /\ pc[t] = "hook_check"
    /\ Goto(t, IF loc[t].L # NullState /\ ~g_shutdownRequested
               THEN "hook_lock" ELSE "hook_forward")
    /\ UNCHANGED <<fnVars, callHist, envVars, engineVars, hookVars, loc, terminated>>

\* (variant) the handler does not look the handle up in the registered set.
HookLockNoFind(t) ==
    /\ Live /\ pc[t] = "hook_lock"
    /\ g_registeredStatesMutex = "free"
    /\ IF g_shutdownRequested
       THEN /\ Goto(t, "hook_forward")
            /\ UNCHANGED g_registeredStatesMutex
       ELSE /\ Goto(t, "hook_bind")
            /\ g_registeredStatesMutex' = t
    /\ UNCHANGED <<fnVars, callHist, envVars, engineVars, loc, terminated, g_shutdownRequested,
                   g_luaState, g_originalPcall, g_pcallHookInstalled,
                   g_registeredStates, g_claudeAPIInitialized, mhHook,
                   bindings, observed>>

\* lock_guard, find(L), and RegisterFunctionInState's own test of L and of
\* the shutdown flag; the lock is kept only if the bindings are to be made.
HookLock(t) ==
    /\ Live /\ pc[t] = "hook_lock"
    /\ g_registeredStatesMutex = "free"
    /\ IF loc[t].L \in g_registeredStates \/ g_shutdownRequested
       THEN /\ Goto(t, "hook_forward")
            /\ UNCHANGED g_registeredStatesMutex
       ELSE /\ Goto(t, "hook_bind")
            /\ g_registeredStatesMutex' = t
    /\ UNCHANGED <<fnVars, callHist, envVars, engineVars, loc, terminated, g_shutdownRequested,
                   g_luaState, g_originalPcall, g_pcallHookInstalled,
                   g_registeredStates, g_claudeAPIInitialized, mhHook,
                   bindings, observed>>

\* ---------------------------------------------------- RegisterFunctionInState
\* From the test of the binding primitives on: Initialize once, bind the
\* four callables, insert the handle; then the lock_guard releases.
RegisterFunctionInState(t) ==
    /\ Live /\ pc[t] = "hook_bind"
    /\ IF hksLoaded
       THEN /\ g_apiKey' = IF g_claudeAPIInitialized THEN g_apiKey
                           ELSE KeyAfterInitialize
            /\ g_claudeAPIInitialized' = TRUE
            /\ bindings' = [bindings EXCEPT ![loc[t].L] = @ + 1]
            /\ g_registeredStates' = g_registeredStates \cup {loc[t].L}
       ELSE UNCHANGED <<g_apiKey, g_claudeAPIInitialized, bindings,
                        g_registeredStates>>
    /\ g_registeredStatesMutex' = "free"
    /\ Goto(t, "hook_forward")
    /\ UNCHANGED <<fnVars, callHist, envVars, cacheVars, slotVars, threadVars, g_asyncCancelled,
                   engineHist, loc, terminated, g_shutdownRequested, g_luaState,
                   g_originalPcall, g_pcallHookInstalled, mhHook, observed>>

\* return g_originalPcall(L, nargs, nresults, errfunc).  A null pointer
\* faults; a pointer to the trampoline MH_RemoveHook has freed is dangling,
\* and the call through it either still works or faults.
HookForward(t, works) ==
    /\ Live /\ pc[t] = "hook_forward"
    /\ LET call == <<loc[t].L, loc[t].args>>
           valid == CASE g_originalPcall = "null" -> FALSE
                      [] mhHook = "none" -> works
                      [] OTHER -> TRUE
       IN IF valid
          THEN /\ Return(t, "pcall", call, OrigPcall(loc[t].L, loc[t].args))
               /\ UNCHANGED terminated
          ELSE Fault(t, "pcall", call)
    /\ UNCHANGED <<fnVars, callHist, envVars, engineVars, hookVars>>

\* --------------------------------------------------------- InstallPcallHook
\* The statuses MinHook can give for the state its hook is in.
CreateStatuses ==
    IF mhHook # "none" THEN {"MH_ERROR_ALREADY_CREATED"}
    ELSE {"MH_OK", "MH_ERROR_MEMORY_ALLOC", "MH_ERROR_UNSUPPORTED_FUNCTION"}

EnableStatuses ==
    IF mhHook = "enabled" THEN {"MH_ERROR_ENABLED"}
    ELSE {"MH_OK", "MH_ERROR_MEMORY_PROTECT"}

\* The host creates a game context: InstallPcallHook is entered (hks::pcall
\* was resolved, or there is nothing to intercept).
InstallBegin ==
    /\ Live /\ pc[HostThread] = "h_ready"
    /\ Goto(HostThread, "h_create")
    /\ loc' = [loc EXCEPT ![HostThread].attempt = 1]
    /\ UNCHANGED <<fnVars, callHist, envVars, engineVars, hookVars, terminated>>

\* (variant) the loop retries on every allocation failure.
InstallCreateNoLimit(status) ==
    /\ Live /\ pc[HostThread] = "h_create"
    /\ status \in CreateStatuses
    /\ CASE status = "MH_OK" ->
              /\ mhHook' = "created"
              /\ g_originalPcall' = "trampoline"
              /\ Goto(HostThread, "h_enable")
              /\ UNCHANGED loc
         [] status = "MH_ERROR_ALREADY_CREATED" ->
              /\ Goto(HostThread, "h_enable_existing")
              /\ UNCHANGED <<mhHook, g_originalPcall, loc>>
         [] status = "MH_ERROR_MEMORY_ALLOC" ->
              /\ Goto(HostThread, "h_create")
              /\ loc' = [loc EXCEPT ![HostThread].attempt = @ + 1]
              /\ UNCHANGED <<mhHook, g_originalPcall>>
         [] OTHER ->
              /\ Return(HostThread, "InstallPcallHook", "none", status)
              /\ UNCHANGED <<mhHook, g_originalPcall>>
    /\ UNCHANGED <<fnVars, callHist, envVars, engineVars, terminated, g_shutdownRequested,
                   g_luaState, g_pcallHookInstalled, g_registeredStates,
                   g_registeredStatesMutex, g_claudeAPIInitialized, bindings,
                   observed>>

\* One pass of the loop up to the status of MH_CreateHook.
InstallCreate(status) ==
    /\ Live /\ pc[HostThread] = "h_create"
    /\ status \in CreateStatuses
    /\ CASE status = "MH_OK" ->
              /\ mhHook' = "created"
              /\ g_originalPcall' = "trampoline"
              /\ Goto(HostThread, "h_enable")
              /\ UNCHANGED loc
         [] status = "MH_ERROR_ALREADY_CREATED" ->
              /\ Goto(HostThread, "h_enable_existing")
              /\ UNCHANGED <<mhHook, g_originalPcall, loc>>
         [] status = "MH_ERROR_MEMORY_ALLOC"
              /\ loc[HostThread].attempt < kMaxHookRetries ->
              /\ Goto(HostThread, "h_create")
              /\ loc' = [loc EXCEPT ![HostThread].attempt = @ + 1]
              /\ UNCHANGED <<mhHook, g_originalPcall>>
         [] OTHER ->
              /\ Return(HostThread, "InstallPcallHook", "none", status)
              /\ UNCHANGED <<mhHook, g_originalPcall>>
    /\ UNCHANGED <<fnVars, callHist, envVars, engineVars, terminated, g_shutdownRequested,
                   g_luaState, g_pcallHookInstalled, g_registeredStates,
                   g_registeredStatesMutex, g_claudeAPIInitialized, bindings,
                   observed>>

\* MH_EnableHook and what the loop makes of its status.
InstallEnable(status) ==
    /\ Live /\ pc[HostThread] \in {"h_enable", "h_enable_existing"}
    /\ status \in EnableStatuses
    /\ mhHook' = IF status = "MH_OK" THEN "enabled" ELSE mhHook
    /\ g_pcallHookInstalled' =
         IF \/ status = "MH_OK"
            \/ pc[HostThread] = "h_enable_existing" /\ status = "MH_ERROR_ENABLED"
         THEN TRUE ELSE g_pcallHookInstalled
    /\ Return(HostThread, "InstallPcallHook", "none", status)
    /\ UNCHANGED <<fnVars, callHist, envVars, engineVars, terminated, g_shutdownRequested,
                   g_luaState, g_originalPcall, g_registeredStates,
                   g_registeredStatesMutex, g_claudeAPIInitialized, bindings,
                   observed>>

\* ------------------------------------------------ DllMain, DLL_PROCESS_DETACH
\* g_shutdownRequested.store(true); then Sleep, then CancelAsyncRequest.
DetachShutdown ==
    /\ Live /\ pc[DllThread] = "d_ready"
    /\ g_shutdownRequested' = TRUE
    /\ Goto(DllThread, "d_cancel")
    /\ UNCHANGED <<fnVars, callHist, envVars, engineVars, loc, terminated, g_luaState,
                   g_originalPcall, g_pcallHookInstalled, g_registeredStates,
                   g_registeredStatesMutex, g_claudeAPIInitialized, mhHook,
                   bindings, observed>>

\* ------------------------------------------- CleanupHavokScriptIntegration
\* (variant) the installed flag is not looked at.
CleanupCheckAlways ==
    /\ Live /\ pc[DllThread] = "d_cleanup"
    /\ Goto(DllThread, "d_disable")
    /\ UNCHANGED <<fnVars, callHist, envVars, engineVars, hookVars, loc, terminated>>

\* if (g_pcallHookInstalled && hks::pcall)
CleanupCheck ==
    /\ Live /\ pc[DllThread] = "d_cleanup"
    /\ Goto(DllThread, IF g_pcallHookInstalled THEN "d_disable" ELSE "d_clear_state")
    /\ UNCHANGED <<fnVars, callHist, envVars, engineVars, hookVars, loc, terminated>>

\* MH_DisableHook(hks::pcall)
CleanupDisable ==
    /\ Live /\ pc[DllThread] = "d_disable"
    /\ mhHook' = IF mhHook = "enabled" THEN "created" ELSE mhHook
    /\ Goto(DllThread, "d_remove")
    /\ UNCHANGED <<fnVars, callHist, envVars, engineVars, loc, terminated, g_shutdownRequested,
                   g_luaState, g_originalPcall, g_pcallHookInstalled,
                   g_registeredStates, g_registeredStatesMutex,
                   g_claudeAPIInitialized, bindings, observed>>

\* MH_RemoveHook(hks::pcall); g_pcallHookInstalled = false
CleanupRemove ==
    /\ Live /\ pc[DllThread] = "d_remove"
    /\ mhHook' = "none"
    /\ g_pcallHookInstalled' = FALSE
    /\ Goto(DllThread, "d_clear_state")
    /\ UNCHANGED <<fnVars, callHist, envVars, engineVars, loc, terminated, g_shutdownRequested,
                   g_luaState, g_originalPcall, g_registeredStates,
                   g_registeredStatesMutex, g_claudeAPIInitialized, bindings,
                   observed>>

\* g_luaState.store(nullptr)
CleanupClearState ==
    /\ Live /\ pc[DllThread] = "d_clear_state"
    /\ g_luaState' = NullState
    /\ Goto(DllThread, "d_clear_orig")
    /\ UNCHANGED <<fnVars, callHist, envVars, engineVars, loc, terminated, g_shutdownRequested,
                   g_originalPcall, g_pcallHookInstalled, g_registeredStates,
                   g_registeredStatesMutex, g_claudeAPIInitialized, mhHook,
                   bindings, observed>>

\* g_originalPcall = nullptr
CleanupClearOrig ==
    /\ Live /\ pc[DllThread] = "d_clear_orig"
    /\ g_originalPcall' = "null"
    /\ Goto(DllThread, "d_clear_set")
    /\ UNCHANGED <<fnVars, callHist, envVars, engineVars, loc, terminated, g_shutdownRequested,
                   g_luaState, g_pcallHookInstalled, g_registeredStates,
                   g_registeredStatesMutex, g_claudeAPIInitialized, mhHook,
                   bindings, observed>>

\* Under the lock: g_registeredStates.clear(); Cleanup returns.
CleanupClearSet ==
    /\ Live /\ pc[DllThread] = "d_clear_set"
    /\ g_registeredStatesMutex = "free"
    /\ g_registeredStates' = {}
    /\ pc' = [pc EXCEPT ![DllThread] = "d_done"]
    /\ ret' = [t |-> DllThread, op |-> "Cleanup", arg |-> "none", val |-> "void"]
    /\ UNCHANGED <<fnVars, callHist, envVars, engineVars, loc, terminated, g_shutdownRequested,
                   g_luaState, g_originalPcall, g_pcallHookInstalled,
                   g_registeredStatesMutex, g_claudeAPIInitialized, mhHook,
                   bindings, observed>>

\* CleanupHavokScriptIntegration is called once more after it has
\* returned, and runs from its first statement to its last.
CleanupRepeat ==
    /\ Live /\ pc[DllThread] \in {"d_done", "d_done_again"}
    /\ mhHook' = IF g_pcallHookInstalled THEN "none" ELSE mhHook
    /\ g_pcallHookInstalled' = FALSE
    /\ g_luaState' = NullState
    /\ g_originalPcall' = "null"
    /\ g_registeredStatesMutex = "free"
    /\ g_registeredStates' = {}
    /\ pc' = [pc EXCEPT ![DllThread] = "d_done_again"]
    /\ ret' = [t |-> DllThread, op |-> "Cleanup", arg |-> "none", val |-> "void"]
    /\ UNCHANGED <<fnVars, callHist, envVars, engineVars, loc, terminated,
                   g_shutdownRequested, g_registeredStatesMutex,
                   g_claudeAPIInitialized, bindings, observed>>

\* --------------------------------------------------- hook specification
HookStep(t) ==
    \/ \E L \in Handles, args \in PcallArgs : HookEnter(t, L, args)
    \/ HookCheck(t)
    \/ HookLock(t)
    \/ RegisterFunctionInState(t)
    \/ \E works \in BOOLEAN : HookForward(t, works)

InstallStep ==
    \/ InstallBegin
    \/ \E status \in CreateStatuses : InstallCreate(status)
    \/ \E status \in EnableStatuses : InstallEnable(status)

\* No request was ever started: CancelAsyncRequest finds nothing to join.
DetachStep ==
    \/ DetachShutdown
    \/ CancelFlag(DllThread)
    \/ CancelJoinable(DllThread)
    \/ CancelReset(DllThread)
    \/ CleanupCheck
    \/ CleanupDisable
    \/ CleanupRemove
    \/ CleanupClearState
    \/ CleanupClearOrig
    \/ CleanupClearSet

\* The same up to the raising of the shutdown signal: the library stays
\* loaded.
NextRegister ==
    \/ \E t \in Threads : HookStep(t)
    \/ InstallStep
    \/ DetachShutdown

SpecRegister == Init /\ [][NextRegister]_vars

\* The host installs the hook, runtime threads run intercepted pcalls on
\* any runtime instance, and the loader may detach the library at any time.
NextHook ==
    \/ \E t \in Threads : HookStep(t)
    \/ InstallStep
    \/ DetachStep

SpecHook == Init /\ [][NextHook]_vars

\* One runtime thread whose intercepted calls run step by step, from the
\* arrival in the patched function on, beside installation and detach.
NextInvalidate ==
    \/ \E t \in SeqThreads :
         \/ \E L \in Handles, args \in PcallArgs : HookCall(t, L, args)
         \/ HookCas(t)
         \/ HookCheck(t)
         \/ HookLock(t)
         \/ RegisterFunctionInState(t)
         \/ \E works \in BOOLEAN : HookForward(t, works)
    \/ InstallStep
    \/ DetachStep

SpecInvalidate == Init /\ [][NextInvalidate]_vars

\* The host installs the hook while a runtime thread runs intercepted
\* pcalls; the host's thread is scheduled again and again, and MinHook's
\* calls and Sleep return.
NextInstall ==
    \/ InstallStep
    \/ \E t \in SeqThreads : HookStep(t)

SpecInstall == Init /\ [][NextInstall]_vars /\ WF_vars(InstallStep)

\* The same calls one after the other: a call begins only when no other
\* thread is inside one, and teardown may be called again.
NextTeardown ==
    LET Alone(t) == \A u \in AllThreads \ {t} :
                      pc[u] \in {RestLabel(u), "d_done", "d_done_again"}
    IN \/ \E t \in Threads : Alone(t) /\ HookStep(t)
       \/ Alone(HostThread) /\ InstallStep
       \/ Alone(DllThread) /\ DetachStep
       \/ Alone(DllThread) /\ CleanupRepeat

SpecTeardown == Init /\ [][NextTeardown]_vars

\* ====================================================================
\* The functions bound into the runtime
\* ====================================================================
\* A call's argument: a snapshot text, or NoSnap for a missing or empty one.
LuaArgs == {SnapTurn5, SnapNoTurn, NoSnap}

\* ------------------------------------------- lua_SendGameStateToClaudeAPI
\* The shutdown check and the argument check. What GetActionFromClaude
\* returns is pushed as it is.
SendCheck(t, snap) ==
    /\ Live /\ pc[t] = "ready"
    /\ IF g_shutdownRequested
       THEN Return(t, "SendGameStateToClaudeAPI", snap, ErrShutdown)
       ELSE IF snap = NoSnap
       THEN Return(t, "SendGameStateToClaudeAPI", snap, ErrNoGameState)
       ELSE /\ Goto(t, "send_call")
            /\ loc' = [loc EXCEPT ![t].snap = snap]
    /\ scen' = 0
    /\ UNCHANGED <<fnVars, callHist, envVars, hookVars, terminated, g_apiKey,
                   cacheVars, slotVars, threadVars, g_asyncCancelled,
                   deliveries, cancelSeen>>


\* ---------------------------------------------- lua_StartClaudeAPIRequest
\* (variant) the shutdown signal is not looked at.
LuaStartCheckNoShutdown(t, snap) ==
    /\ Live /\ pc[t] = "ready"
    /\ IF snap = NoSnap
       THEN Return(t, "StartClaudeAPIRequest", snap, FALSE)
       ELSE /\ Goto(t, "lua_start")
            /\ loc' = [loc EXCEPT ![t].snap = snap]
    /\ scen' = 0
    /\ UNCHANGED <<fnVars, callHist, envVars, hookVars, terminated, g_apiKey,
                   cacheVars, slotVars, threadVars, g_asyncCancelled,
                   deliveries, cancelSeen>>

\* The shutdown check and the argument check. What StartAsyncRequest
\* returns is pushed as a boolean.
LuaStartCheck(t, snap) ==
    /\ Live /\ pc[t] = "ready"
    /\ IF g_shutdownRequested \/ snap = NoSnap
       THEN Return(t, "StartClaudeAPIRequest", snap, FALSE)
       ELSE /\ Goto(t, "lua_start")
            /\ loc' = [loc EXCEPT ![t].snap = snap]
    /\ scen' = 0
    /\ UNCHANGED <<fnVars, callHist, envVars, hookVars, terminated, g_apiKey,
                   cacheVars, slotVars, threadVars, g_asyncCancelled,
                   deliveries, cancelSeen>>


\* --------------------------------------------- lua_CheckClaudeAPIResponse
\* What a poll leaves behind: the values pushed, in order, and whether
\* the runtime-global property was written.
Polled(values, property) == [pushed |-> values, property |-> property]

\* The status tokens, and the token of each request state.
PollStatuses == {"idle", "pending", "ready", "ready_long", "error"}
StatusesOf(state) ==
    CASE state = Idle -> {"idle"}
      [] state = Pending -> {"pending"}
      [] state = Ready -> {"ready", "ready_long"}
      [] OTHER -> {"error"}

\* The shutdown check.
PollCheck(t) ==
    /\ Live /\ pc[t] = "ready"
    /\ IF g_shutdownRequested
       THEN Return(t, "CheckClaudeAPIResponse", "none",
                   Polled(<<"error", "Shutdown in progress">>, "unset"))
       ELSE /\ Goto(t, "poll_state")
            /\ UNCHANGED loc
    /\ scen' = 0
    /\ UNCHANGED <<fnVars, callHist, envVars, hookVars, terminated, g_apiKey,
                   cacheVars, slotVars, threadVars, g_asyncCancelled,
                   deliveries, cancelSeen>>

\* (variant) a pending request is reported idle.
PollStatePendingIdle(t) ==
    /\ Live /\ pc[t] = "poll_state"
    /\ CASE g_asyncState \in {Idle, Pending} ->
              Return(t, "CheckClaudeAPIResponse", "none", Polled(<<"idle">>, "unset"))
         [] g_asyncState = Ready ->
              Goto(t, "poll_take") /\ UNCHANGED loc
         [] OTHER ->
              Goto(t, "poll_error") /\ UNCHANGED loc
    /\ UNCHANGED <<fnVars, callHist, envVars, hookVars, terminated, engineVars>>

\* GetAsyncState and the switch on it.
PollState(t) ==
    /\ Live /\ pc[t] = "poll_state"
    /\ CASE g_asyncState = Idle ->
              Return(t, "CheckClaudeAPIResponse", "none", Polled(<<"idle">>, "unset"))
         [] g_asyncState = Pending ->
              Return(t, "CheckClaudeAPIResponse", "none", Polled(<<"pending">>, "unset"))
         [] g_asyncState = Ready ->
              Goto(t, "poll_take") /\ UNCHANGED loc
         [] OTHER ->
              Goto(t, "poll_error") /\ UNCHANGED loc
    /\ UNCHANGED <<fnVars, callHist, envVars, hookVars, terminated, engineVars>>

\* (variant) a long payload is reported ready_long although dostring
\* failed.
PollTakeIgnoresWrite(t, dostring) ==
    /\ Live /\ pc[t] = "poll_take"
    /\ LET response == IF g_asyncState = Ready THEN g_asyncResponse ELSE "" IN
         /\ IF g_asyncState = Ready
            THEN /\ g_asyncResponse' = ""
                 /\ g_asyncState' = Idle
            ELSE UNCHANGED <<g_asyncResponse, g_asyncState>>
         /\ deliveries' = deliveries + (IF response # "" THEN 1 ELSE 0)
         /\ IF PayloadLength(response) > kLongResponseThreshold /\ dostring # "null"
            THEN Return(t, "CheckClaudeAPIResponse", "none",
                        Polled(<<"ready_long">>,
                               IF dostring = "ok" THEN "written" ELSE "unset"))
            ELSE Return(t, "CheckClaudeAPIResponse", "none",
                        Polled(<<"ready", response>>, "unset"))
    /\ UNCHANGED <<fnVars, callHist, envVars, hookVars, terminated, g_apiKey,
                   cacheVars, g_asyncError, threadVars, g_asyncCancelled,
                   cancelSeen, scen>>

\* Case Ready: GetAsyncResponse, then the payload goes to the property
\* (hks::dostring is "null", or runs and ends "ok" or "failed") or onto
\* the stack.
PollTake(t, dostring) ==
    /\ Live /\ pc[t] = "poll_take"
    /\ LET response == IF g_asyncState = Ready THEN g_asyncResponse ELSE "" IN
         /\ IF g_asyncState = Ready
            THEN /\ g_asyncResponse' = ""
                 /\ g_asyncState' = Idle
            ELSE UNCHANGED <<g_asyncResponse, g_asyncState>>
         /\ deliveries' = deliveries + (IF response # "" THEN 1 ELSE 0)
         /\ IF PayloadLength(response) > kLongResponseThreshold /\ dostring = "ok"
            THEN Return(t, "CheckClaudeAPIResponse", "none",
                        Polled(<<"ready_long">>, "written"))
            ELSE Return(t, "CheckClaudeAPIResponse", "none",
                        Polled(<<"ready", response>>, "unset"))
    /\ UNCHANGED <<fnVars, callHist, envVars, hookVars, terminated, g_apiKey,
                   cacheVars, g_asyncError, threadVars, g_asyncCancelled,
                   cancelSeen, scen>>

\* Case Failed: GetAsyncError.
PollError(t) ==
    /\ Live /\ pc[t] = "poll_error"
    /\ Return(t, "CheckClaudeAPIResponse", "none",
              Polled(<<"error", g_asyncError>>, "unset"))
    /\ UNCHANGED <<fnVars, callHist, envVars, hookVars, terminated, engineVars>>

\* ------------------------------------------------- bridge specification
\* One logical runtime thread calls the four bound functions
\* (lua_CancelClaudeAPIRequest is CancelAsyncRequest and nothing else);
\* the loader may raise the shutdown signal at any time and then cancels
\* the request. The library stays loaded.
LuaCallerStep(t) ==
    \/ \E snap \in LuaArgs : SendCheck(t, snap)
    \/ GacCallFrom(t, loc[t].snap, "send_call")
    \/ \E reply \in LuaReplies : GacHttp(t, reply)
    \/ \E snap \in LuaArgs : LuaStartCheck(t, snap)
    \/ StartCheckFrom(t, loc[t].snap, "lua_start")
    \/ StartJoinable(t)
    \/ \E throws \in BOOLEAN : StartJoin(t, throws)
    \/ StartReset(t)
    \/ StartLaunch(t)
    \/ StartAssignCheck(t)
    \/ StartAssignStore(t)
    \/ PollCheck(t)
    \/ PollState(t)
    \/ \E dostring \in {"null", "ok", "failed"} : PollTake(t, dostring)
    \/ PollError(t)
    \/ CancelFlag(t)
    \/ CancelJoinable(t)
    \/ \E throws \in BOOLEAN : CancelJoin(t, throws)
    \/ CancelReset(t)

LuaWorkerStep(w) ==
    \/ WorkerCheckBefore(w)
    \/ WorkerCancelled(w)
    \/ WorkerGacPre(w)
    \/ \E reply \in LuaReplies : WorkerHttp(w, reply)
    \/ WorkerCheckAfter(w)
    \/ WorkerPublish(w)
    \/ WorkerExit(w)

LuaDetachStep ==
    \/ DetachShutdown
    \/ CancelFlag(DllThread)
    \/ CancelJoinable(DllThread)
    \/ \E throws \in BOOLEAN : CancelJoin(DllThread, throws)
    \/ CancelReset(DllThread)

NextLua ==
    \/ \E t \in SeqThreads : LuaCallerStep(t)
    \/ \E w \in WorkerIds : LuaWorkerStep(w)
    \/ LuaDetachStep

SpecLua == InitEngine /\ [][NextLua]_vars

\* ====================================================================
\* Text functions
\* ====================================================================
\* Texts are sequences of bytes (char values 0..255).
Char ==
    [quote |-> 34, backslash |-> 92, slash |-> 47, colon |-> 58, comma |-> 44,
     open |-> 123, close |-> 125]

\* The value of a char where char is signed (the build's ABI).
SignedChar(b) == IF b >= 128 THEN b - 256 ELSE b

\* std::hex << std::setw(4) << std::setfill('0') << int, in lower-case
\* hexadecimal digits.
Hex4(n) ==
    LET HexDigit(d) == IF d < 10 THEN 48 + d ELSE 87 + d IN
      <<HexDigit((n \div 4096) % 16), HexDigit((n \div 256) % 16),
        HexDigit((n \div 16) % 16), HexDigit(n % 16)>>

\* (variant) the backslash is written as it is.
EscapeCharKeepsBackslash(b) ==
    CASE b = Char.quote -> <<Char.backslash, Char.quote>>
      [] b = 8 -> <<Char.backslash, 98>>
      [] b = 12 -> <<Char.backslash, 102>>
      [] b = 10 -> <<Char.backslash, 110>>
      [] b = 13 -> <<Char.backslash, 114>>
      [] b = 9 -> <<Char.backslash, 116>>
      [] OTHER -> IF 0 <= SignedChar(b) /\ SignedChar(b) <= 31
                  THEN <<Char.backslash, 117>> \o Hex4(SignedChar(b))
                  ELSE <<b>>

\* The switch of EscapeJson on one char.
EscapeChar(b) ==
    CASE b = Char.quote -> <<Char.backslash, Char.quote>>
      [] b = Char.backslash -> <<Char.backslash, Char.backslash>>
      [] b = 8 -> <<Char.backslash, 98>>
      [] b = 12 -> <<Char.backslash, 102>>
      [] b = 10 -> <<Char.backslash, 110>>
      [] b = 13 -> <<Char.backslash, 114>>
      [] b = 9 -> <<Char.backslash, 116>>
      [] OTHER -> IF 0 <= SignedChar(b) /\ SignedChar(b) <= 31
                  THEN <<Char.backslash, 117>> \o Hex4(SignedChar(b))
                  ELSE <<b>>

RECURSIVE EscapeJson(_)
EscapeJson(text) ==
    IF text = <<>> THEN <<>>
    ELSE EscapeChar(Head(text)) \o EscapeJson(Tail(text))

\* R"({"error":")" + EscapeJson(errorMsg) + R"("})"
ErrorKey == <<101, 114, 114, 111, 114>>
ErrorPayload(msg) ==
    <<Char.open, Char.quote>> \o ErrorKey \o <<Char.quote, Char.colon, Char.quote>>
      \o EscapeJson(msg) \o <<Char.quote, Char.close>>

\* ---------------------------------------------------------------- json::parse
\* The value of a hexadecimal digit, -1 for any other char.
HexValue(c) ==
    CASE c >= 48 /\ c <= 57 -> c - 48
      [] c >= 97 /\ c <= 102 -> c - 87
      [] c >= 65 /\ c <= 70 -> c - 55
      [] OTHER -> -1

\* The UTF-8 encoding of a code point of the basic plane.
Utf8(cp) ==
    IF cp < 128 THEN <<cp>>
    ELSE IF cp < 2048 THEN <<192 + (cp \div 64), 128 + (cp % 64)>>
    ELSE <<224 + (cp \div 4096), 128 + ((cp \div 64) % 64), 128 + (cp % 64)>>

ScanFailed == [ok |-> FALSE, value |-> <<>>, next |-> 0]

\* The lexer inside a string literal, from position i (after the opening
\* quote) on: the string's value and the position after the closing quote.
\* Bytes from 0x80 on stand for the bytes of well-formed multi-byte
\* characters.
RECURSIVE ScanString(_, _, _)
ScanString(text, i, acc) ==
    IF i > Len(text) THEN ScanFailed
    ELSE LET c == text[i] IN
      IF c = Char.quote THEN [ok |-> TRUE, value |-> acc, next |-> i + 1]
      ELSE IF c = Char.backslash
      THEN IF i + 1 > Len(text) THEN ScanFailed
           ELSE LET e == text[i + 1] IN
             CASE e \in {Char.quote, Char.backslash, Char.slash} ->
                    ScanString(text, i + 2, Append(acc, e))
               [] e = 98 -> ScanString(text, i + 2, Append(acc, 8))
               [] e = 102 -> ScanString(text, i + 2, Append(acc, 12))
               [] e = 110 -> ScanString(text, i + 2, Append(acc, 10))
               [] e = 114 -> ScanString(text, i + 2, Append(acc, 13))
               [] e = 116 -> ScanString(text, i + 2, Append(acc, 9))
               [] e = 117 ->
                    IF /\ i + 5 <= Len(text)
                       /\ \A k \in 2..5 : HexValue(text[i + k]) >= 0
                    THEN ScanString(text, i + 6,
                           acc \o Utf8(HexValue(text[i + 2]) * 4096
                                       + HexValue(text[i + 3]) * 256
                                       + HexValue(text[i + 4]) * 16
                                       + HexValue(text[i + 5])))
                    ELSE ScanFailed
               [] OTHER -> ScanFailed
      ELSE IF c < 32 THEN ScanFailed
      ELSE ScanString(text, i + 1, Append(acc, c))

ParseFailed == [ok |-> FALSE, members |-> <<>>]

\* The parser on an object whose members are strings or empty objects,
\* from the first member's opening quote (position i) on: the members in
\* order. An empty object as a value is kept as <<-1>>, which is no text.
RECURSIVE ParseMembers(_, _, _)
ParseMembers(text, i, acc) ==
    IF i > Len(text) \/ text[i] # Char.quote THEN ParseFailed
    ELSE LET key == ScanString(text, i + 1, <<>>) IN
      IF ~key.ok \/ key.next + 1 > Len(text) THEN ParseFailed
      ELSE IF text[key.next] # Char.colon THEN ParseFailed
      ELSE LET val ==
                 IF text[key.next + 1] = Char.quote
                 THEN ScanString(text, key.next + 2, <<>>)
                 ELSE IF /\ key.next + 2 <= Len(text)
                         /\ text[key.next + 1] = Char.open
                         /\ text[key.next + 2] = Char.close
                 THEN [ok |-> TRUE, value |-> <<-1>>, next |-> key.next + 3]
                 ELSE ScanFailed
           IN
        IF ~val.ok \/ val.next > Len(text) THEN ParseFailed
        ELSE LET all == Append(acc, <<key.value, val.value>>) IN
          CASE text[val.next] = Char.close ->
                 IF val.next = Len(text)
                 THEN [ok |-> TRUE, members |-> all]
                 ELSE ParseFailed
            [] text[val.next] = Char.comma -> ParseMembers(text, val.next + 1, all)
            [] OTHER -> ParseFailed

\* json::parse of a text that is an object whose members are strings or
\* empty objects; any other text is a parse error here.
ParseObject(text) ==
    IF Len(text) < 2 \/ text[1] # Char.open THEN ParseFailed
    ELSE IF text = <<Char.open, Char.close>>
    THEN [ok |-> TRUE, members |-> <<>>]
    ELSE ParseMembers(text, 2, <<>>)

\* contains(key), and the value operator[] gives: the last member of that
\* name.
Contains(obj, key) == \E k \in 1..Len(obj.members) : obj.members[k][1] = key
ValueOf(obj, key) ==
    LET ks == {k \in 1..Len(obj.members) : obj.members[k][1] = key} IN
      obj.members[CHOOSE k \in ks : \A j \in ks : j <= k][2]

\* --------------------------------------------------- an error's way through
\* Messages of the service's error object: the characters EscapeJson
\* tells apart.
MaxMsgLen == 3
MsgAlphabet == {0, 10, 31, 32, Char.quote, Char.backslash, 117, 200}
RECURSIVE TextsUpTo(_, _)
TextsUpTo(alphabet, n) ==
    IF n = 0 THEN {<<>>}
    ELSE LET shorter == TextsUpTo(alphabet, n - 1) IN
      shorter \cup {Append(t, c) : t \in {x \in shorter : Len(x) = n - 1}, c \in alphabet}

\* The service's reply carries the error object with message fnArg:
\* GetActionFromClaude returns the error payload.
SurfaceFacade ==
    /\ fnRes.stage = "reply"
    /\ fnRes' = [stage |-> "result", result |-> ErrorPayload(fnArg)]
    /\ UNCHANGED <<fnArg, envVars, engineVars, callHist, hookVars, pc, loc, ret,
                   terminated>>

\* The worker stores the result: the state and the slots it publishes.
\* get<std::string>() on an error member that is no string throws, and
\* the catch (...) of the parse stores Ready.
SurfaceWorker ==
    /\ fnRes.stage = "result"
    /\ LET obj == ParseObject(fnRes.result) IN
         fnRes' = IF /\ obj.ok /\ Contains(obj, ErrorKey)
                     /\ ValueOf(obj, ErrorKey) # <<-1>>
                  THEN [stage |-> "published", state |-> Failed,
                        response |-> fnRes.result,
                        error |-> ValueOf(obj, ErrorKey)] @@ fnRes
                  ELSE [stage |-> "published", state |-> Ready,
                        response |-> fnRes.result, error |-> <<>>] @@ fnRes
    /\ UNCHANGED <<fnArg, envVars, engineVars, callHist, hookVars, pc, loc, ret,
                   terminated>>

\* GetAsyncError returns the error slot.
SurfaceTakeError ==
    /\ fnRes.stage = "published"
    /\ fnRes' = [stage |-> "taken", state |-> fnRes.state, error |-> fnRes.error]
    /\ UNCHANGED <<fnArg, envVars, engineVars, callHist, hookVars, pc, loc, ret,
                   terminated>>

InitErrorText ==
    /\ InitProgram /\ hksLoaded /\ envHasKey
    /\ fnArg \in TextsUpTo(MsgAlphabet, MaxMsgLen)
    /\ fnRes = [stage |-> "reply"]

NextErrorText == SurfaceFacade \/ SurfaceWorker \/ SurfaceTakeError

SpecErrorText == InitErrorText /\ [][NextErrorText]_vars

\* ------------------------------------------------- ExtractJsonFromResponse
\* std::string::find: the first position from `from` on where pat stands,
\* 0 for npos. Positions count from 1.
Find(text, pat, from) ==
    LET hits == {i \in from..(Len(text) - Len(pat) + 1) :
                   SubSeq(text, i, i + Len(pat) - 1) = pat}
    IN IF hits = {} THEN 0 ELSE CHOOSE i \in hits : \A j \in hits : i <= j

\* The texts the finds look for: "```", "```json" and "\n".
Marker ==
    [fence |-> <<96, 96, 96>>, json |-> <<96, 96, 96, 106, 115, 111, 110>>,
     newline |-> <<10>>]

\* The three finds of a strategy: the opener, the newline after it, the
\* next fence after that line; and the text between the two.
FencedBlock(content, opener) ==
    LET blockStart == Find(content, opener, 1)
        lineEnd == IF blockStart = 0 THEN 0 ELSE Find(content, Marker.newline, blockStart)
        jsonEnd == IF lineEnd = 0 THEN 0 ELSE Find(content, Marker.fence, lineEnd + 1)
    IN [opened |-> blockStart # 0,
        found |-> jsonEnd # 0,
        contents |-> IF jsonEnd # 0 THEN SubSeq(content, lineEnd + 1, jsonEnd - 1)
                     ELSE <<>>]

\* Strategies 1 and 2: `trimmed` when the brace scan starts.
CandidateRegion(content) ==
    IF FencedBlock(content, Marker.json).opened
    THEN IF FencedBlock(content, Marker.json).found
         THEN FencedBlock(content, Marker.json).contents
         ELSE content
    ELSE IF FencedBlock(content, Marker.fence).found
    THEN FencedBlock(content, Marker.fence).contents
    ELSE content

\* (variant) braceEnd is the last closing brace of the text.
BraceEndLastClose(text, i, count) ==
    LET closes == {k \in i..Len(text) : text[k] = Char.close} IN
      IF closes = {} THEN 0 ELSE CHOOSE k \in closes : \A j \in closes : j <= k

\* The for loop of strategy 3 from position i on with braceCount = count:
\* braceEnd, 0 for npos.
RECURSIVE BraceEnd(_, _, _)
BraceEnd(text, i, count) ==
    IF i > Len(text) THEN 0
    ELSE IF text[i] = Char.open THEN BraceEnd(text, i + 1, count + 1)
    ELSE IF text[i] = Char.close
    THEN IF count - 1 = 0 THEN i ELSE BraceEnd(text, i + 1, count - 1)
    ELSE BraceEnd(text, i + 1, count)

\* Strategy 4: the text between the first and the last char that is not
\* one of " \t\n\r".
TrimBlank(text) ==
    LET solid == {i \in 1..Len(text) : text[i] \notin {32, 9, 10, 13}} IN
      IF solid = {} THEN text
      ELSE SubSeq(text, CHOOSE i \in solid : \A j \in solid : i <= j,
                        CHOOSE i \in solid : \A j \in solid : j <= i)

\* From the candidate region on: the balanced object if json::parse takes
\* it, else the trimmed region.
ExtractFromRegion(trimmed) ==
    LET braceStart == Find(trimmed, <<Char.open>>, 1)
        braceEnd == IF braceStart = 0 THEN 0 ELSE BraceEnd(trimmed, braceStart, 0)
        extracted == SubSeq(trimmed, braceStart, braceEnd)
    IN IF braceStart # 0 /\ braceEnd # 0 /\ ParseObject(extracted).ok
       THEN extracted
       ELSE TrimBlank(trimmed)

ExtractJsonFromResponse(content) == ExtractFromRegion(CandidateRegion(content))

\* Answer texts: up to MaxTokens pieces, each a fence, the tag, a newline,
\* an object json::parse takes, an object with an object inside
\* ({"error":{}}), a brace pair it rejects ({x}), or a blank.
MaxTokens == 5
Pieces == {Marker.fence, <<106, 115, 111, 110>>, Marker.newline,
           <<Char.open, Char.close>>,
           <<Char.open, Char.quote>> \o ErrorKey
             \o <<Char.quote, Char.colon, Char.open, Char.close, Char.close>>,
           <<Char.open, 120, Char.close>>, <<32>>}
RECURSIVE Joined(_)
Joined(n) ==
    IF n = 0 THEN {<<>>}
    ELSE Joined(n - 1) \cup {t \o piece : t \in Joined(n - 1), piece \in Pieces}

\* The extractor is applied to the answer text fnArg.
Extract ==
    /\ fnRes.stage = "content"
    /\ fnRes' = [stage |-> "extracted",
                 region |-> CandidateRegion(fnArg),
                 out |-> ExtractJsonFromResponse(fnArg)]
    /\ UNCHANGED <<fnArg, envVars, engineVars, callHist, hookVars, pc, loc, ret,
                   terminated>>

InitExtract ==
    /\ InitProgram /\ hksLoaded /\ envHasKey
    /\ fnArg \in Joined(MaxTokens)
    /\ fnRes = [stage |-> "content"]

NextExtract == Extract

SpecExtract == InitExtract /\ [][NextExtract]_vars

\* ------------------------------------- GetActionFromClaude, from the reply
\* The texts of the string literals: "Empty response", "Unexpected response
\* format", "JSON parse error", "Invalid JSON from Claude", and the names
\* and the value of the default action.
Literal ==
    [emptyResponse |->
       <<69, 109, 112, 116, 121, 32, 114, 101, 115, 112, 111, 110, 115, 101>>,
     unexpected |->
       <<85, 110, 101, 120, 112, 101, 99, 116, 101, 100, 32, 114, 101, 115,
         112, 111, 110, 115, 101, 32, 102, 111, 114, 109, 97, 116>>,
     parseError |->
       <<74, 83, 79, 78, 32, 112, 97, 114, 115, 101, 32, 101, 114, 114, 111,
         114>>,
     invalidJson |->
       <<73, 110, 118, 97, 108, 105, 100, 32, 74, 83, 79, 78, 32, 102, 114,
         111, 109, 32, 67, 108, 97, 117, 100, 101>>,
     action |-> <<97, 99, 116, 105, 111, 110>>,
     endTurn |-> <<101, 110, 100, 95, 116, 117, 114, 110>>,
     reason |-> <<114, 101, 97, 115, 111, 110>>]

\* R"({"action":"end_turn","reason":")" + reason + R"("})"
EndTurnPayload(reason) ==
    <<Char.open, Char.quote>> \o Literal.action
      \o <<Char.quote, Char.colon, Char.quote>> \o Literal.endTurn
      \o <<Char.quote, Char.comma, Char.quote>> \o Literal.reason
      \o <<Char.quote, Char.colon, Char.quote>> \o reason
      \o <<Char.quote, Char.close>>

\* json::parse(jsonStr) followed by dump(): an object as ParseObject takes
\* it, or a number written in digits; any other text is a parse error
\* here. dump() writes the members' strings with the escapes of
\* EscapeJson; the objects of the answer texts have at most one member,
\* so no key is reordered or dropped.
ParseAndDump(text) ==
    LET obj == ParseObject(text)
        number == /\ text # <<>>
                  /\ \A i \in 1..Len(text) : text[i] >= 48 /\ text[i] <= 57
                  /\ Len(text) > 1 => text[1] # 48
        Member(m) ==
            <<Char.quote>> \o EscapeJson(m[1]) \o <<Char.quote, Char.colon>>
              \o (IF m[2] = <<-1>> THEN <<Char.open, Char.close>>
                  ELSE <<Char.quote>> \o EscapeJson(m[2]) \o <<Char.quote>>)
    IN IF obj.ok
       THEN [ok |-> TRUE,
             text |-> IF obj.members = <<>> THEN <<Char.open, Char.close>>
                      ELSE <<Char.open>> \o Member(obj.members[1])
                             \o <<Char.close>>]
       ELSE [ok |-> number, text |-> text]

\* What the transport and the parse of the envelope can give: no reply, a
\* text that is not JSON, the error object with a message, the error
\* object without one, an object without a content array, and a content
\* array whose first text is the answer.
Envelopes == {"empty", "garbled", "error", "error_no_message", "shape", "content"}

\* GetActionFromClaude from the return of HttpPost on.
ReplyResult(envelope, text) ==
    CASE envelope = "empty" -> ErrorPayload(Literal.emptyResponse)
      [] envelope = "garbled" -> ErrorPayload(Literal.parseError)
      [] envelope = "error" -> ErrorPayload(text)
      [] envelope = "error_no_message" -> ErrorPayload(Literal.parseError)
      [] envelope = "shape" -> ErrorPayload(Literal.unexpected)
      [] OTHER ->
           LET jsonStr == ExtractJsonFromResponse(text) IN
             IF jsonStr = <<>> THEN EndTurnPayload(EscapeJson(text))
             ELSE IF ParseAndDump(jsonStr).ok THEN ParseAndDump(jsonStr).text
             ELSE EndTurnPayload(Literal.invalidJson)

\* HttpPost has returned the envelope with the text fnArg in it: the
\* result of GetActionFromClaude.
AnswerReply ==
    /\ fnRes.stage = "envelope"
    /\ fnRes' = [stage |-> "result", envelope |-> fnRes.envelope,
                 result |-> ReplyResult(fnRes.envelope, fnArg)]
    /\ UNCHANGED <<fnArg, envVars, engineVars, callHist, hookVars, pc, loc, ret,
                   terminated>>

InitAnswer ==
    /\ InitProgram /\ hksLoaded /\ envHasKey
    /\ fnArg \in Joined(MaxTokens)
    /\ \E envelope \in Envelopes : fnRes = [stage |-> "envelope", envelope |-> envelope]

NextAnswer == AnswerReply \/ SurfaceWorker \/ SurfaceTakeError

SpecAnswer == InitAnswer /\ [][NextAnswer]_vars

\* ====================================================================
\* Properties
\* ====================================================================

\* C1: after a cycle reaches Ready, exactly one GetAsyncResponse call gets
\* the payload: between two resets by Start, no second call is handed a
\* payload, for any interleaving of callers.
AtMostOnceDelivery == deliveries <= 1

\* C2: a StartAsyncRequest call made while the state is Pending returns
\* false and leaves the state, both slots, the cancellation flag and the
\* running worker unchanged.
StartWhilePendingRefused ==
    [][\A t \in Threads :
         (/\ pc[t] = "ready"
          /\ g_asyncState = Pending
          /\ \/ pc'[t] = "start_join"
             \/ ret'.t = t /\ ret'.op = "Start")
         => /\ ret'.t = t /\ ret'.op = "Start" /\ ret'.val = FALSE
            /\ UNCHANGED <<slotVars, g_asyncCancelled, threadVars>>]_vars

\* Start was refused while a worker was running.
StartRefusedWhilePending ==
    /\ ret.op = "Start" /\ ret.val = FALSE
    /\ g_asyncState = Pending
    /\ RunningWorkers # {}

\* C3: at every moment at most one worker thread is between its launch and
\* its exit, for every interleaving of calls by the runtime's threads.
AtMostOneWorkerRunning == Cardinality(RunningWorkers) <= 1

\* No interception call is in progress.
Quiescent == \A t \in Threads : pc[t] = "ready"

\* C4 (as stated): while shutdown has not been requested, the registrations
\* performed are one per distinct non-null handle observed.
RegistrationsEqualObserved ==
    (~g_shutdownRequested /\ Quiescent)
    => \A h \in LuaStates : bindings[h] = IF h \in observed THEN 1 ELSE 0

\* C4 (amended): no handle is registered twice, and while shutdown has not
\* been requested the registrations performed are one per distinct non-null
\* handle observed if the host's binding primitives were resolved, and none
\* if they were not.
RegistrationsEqualObservedIfResolved ==
    \A h \in LuaStates :
        /\ bindings[h] <= 1
        /\ (~g_shutdownRequested /\ Quiescent)
           => bindings[h] = IF h \in observed /\ hksLoaded THEN 1 ELSE 0

\* Events on every handle have ended, each handle registered once, the
\* first one captured as primary.
EveryHandleRegisteredOnce ==
    /\ ~g_shutdownRequested /\ Quiescent /\ hksLoaded
    /\ observed = LuaStates
    /\ g_registeredStates = LuaStates
    /\ \A h \in LuaStates : bindings[h] = 1

\* C5: every invocation of HookedPcall ends by returning what the original
\* pcall returns for the same arguments.
ForwardsOriginalOnce ==
    ret.op = "pcall" => ret.val = OrigPcall(ret.arg[1], ret.arg[2])

\* C6: once a worker has read the cancellation flag as set at either
\* checkpoint, nothing is published in that cycle: both slots stay empty,
\* the state is never Ready or Failed, and it is Idle once the worker is
\* gone.
NoPublishAfterCancelSeen ==
    /\ cancelSeen # "no"
       => /\ g_asyncState \in {Pending, Idle}
          /\ g_asyncResponse = ""
          /\ g_asyncError = ""
    /\ (cancelSeen # "no" /\ RunningWorkers = {}) => g_asyncState = Idle

\* A worker saw the cancellation after its work, and has gone.
CancelSeenAfterWork ==
    /\ cancelSeen = "after"
    /\ g_asyncState = Idle
    /\ RunningWorkers = {}
    /\ g_cachedResponse # ""

\* C7: when CancelAsyncRequest returns, the cycle's worker has exited, the
\* state is Idle and both slots are empty.
CancelReturnsIdle ==
    ret.op = "Cancel"
    => /\ RunningWorkers = {}
       /\ g_asyncThread = 0
       /\ g_asyncState = Idle
       /\ g_asyncResponse = ""
       /\ g_asyncError = ""

\* Cancel returned after joining a worker that it had stopped.
CancelJoinedWorker ==
    /\ ret.op = "Cancel"
    /\ cancelSeen # "no"
    /\ \E w \in WorkerIds : worker[w].pc = "joined"

\* C8: Cancel right after an accepted Start, before the worker reaches the
\* network call, leaves Idle with no payload and no error; the next Start
\* is not refused, and the worker it launches does not see the old
\* cancellation.
CancelThenStart ==
    /\ scen = 3
       => /\ g_asyncState = Idle
          /\ g_asyncResponse = ""
          /\ g_asyncError = ""
          /\ RunningWorkers = {}
    /\ scen = 4 => ~(ret.op = "Start" /\ ret.val = FALSE)
    /\ scen = 5
       => /\ ~g_asyncCancelled
          /\ cancelSeen = "no"
          /\ g_asyncThread = nLaunched
          /\ worker[nLaunched].pc # "unborn"

\* The Start after the Cancel was accepted and its worker delivered.
StartAfterCancelDelivered ==
    /\ scen = 5
    /\ g_asyncState = Ready
    /\ g_asyncResponse # ""

\* C9 (as stated): Start returns false only when a request is pending.
StartFalseOnlyWhenPending ==
    [][\A t \in Threads :
         (ret'.t = t /\ ret'.op = "Start" /\ ret'.val = FALSE)
         => g_asyncState = Pending]_vars

StartLabels == {"start_join", "start_joining", "start_reset", "start_launch",
                "start_assign", "start_store"}

\* C9 (amended): a Start made when the state is not Pending and the
\* credential can be initialised empties both slots, clears the
\* cancellation flag, sets Pending, launches exactly one worker and returns
\* true; Start returns false when a request is pending, changing nothing,
\* or when the credential cannot be initialised: then it launches nothing,
\* stores the error "Failed to initialize API" and sets Failed.
StartContract ==
    [][\A t \in Threads :
         /\ (ret'.t = t /\ ret'.op = "Start" /\ ret'.val = FALSE)
            => \/ /\ pc[t] = "ready"
                  /\ g_asyncState = Pending
                  /\ UNCHANGED <<slotVars, g_asyncCancelled, threadVars>>
               \/ /\ pc[t] = "start_reset"
                  /\ ~InitializeOk
                  /\ g_asyncState' = Failed
                  /\ g_asyncError' = "Failed to initialize API"
                  /\ UNCHANGED threadVars
         /\ (pc[t] = "ready" /\ pc'[t] = "start_join") => g_asyncState # Pending
         /\ (pc[t] = "start_reset" /\ pc'[t] # pc[t] /\ InitializeOk)
            => /\ pc'[t] = "start_launch"
               /\ g_asyncResponse' = ""
               /\ g_asyncError' = ""
               /\ g_asyncCancelled' = FALSE
               /\ g_asyncState' = Pending
         /\ (pc[t] = "start_launch" /\ pc'[t] # pc[t])
            => /\ nLaunched' = nLaunched + 1
               /\ worker'[nLaunched'].pc = "w_start"
               /\ worker'[nLaunched'].snap = loc[t].snap
         /\ (pc[t] \in StartLabels \ {"start_launch"} /\ pc'[t] # pc[t])
            => nLaunched' = nLaunched
         /\ (ret'.t = t /\ ret'.op = "Start" /\ ret'.val = TRUE)
            => /\ pc[t] = "start_store"
               /\ loc[t].h = nLaunched
               /\ g_asyncThread' = nLaunched]_vars

\* Start returned false because the credential could not be initialised.
StartFailedToInitialize ==
    /\ ret.op = "Start" /\ ret.val = FALSE
    /\ g_asyncState = Failed
    /\ g_asyncError = "Failed to initialize API"

\* C10 (as stated): the state becomes Ready or Failed only by a transition
\* out of Pending.
OnlyPendingBecomesReadyOrFailed ==
    [][(g_asyncState' \in {Ready, Failed} /\ g_asyncState' # g_asyncState)
       => g_asyncState = Pending]_vars

\* C10 (amended): the state becomes Ready only out of Pending; it becomes
\* Failed out of Pending, or out of another state by a Start that returns
\* false because the credential cannot be initialised; it becomes Pending
\* only by the reset of a Start.
StateMachine ==
    [][g_asyncState' # g_asyncState
       => CASE g_asyncState' = Ready -> g_asyncState = Pending
            [] g_asyncState' = Failed ->
                 \/ g_asyncState = Pending
                 \/ ret'.op = "Start" /\ ret'.val = FALSE /\ ~InitializeOk
            [] g_asyncState' = Pending ->
                 \E t \in Threads : pc[t] = "start_reset" /\ pc'[t] = "start_launch"
            [] OTHER -> TRUE]_vars

\* The state is Failed and no worker was ever launched.
FailedWithoutWorker ==
    /\ g_asyncState = Failed
    /\ nLaunched = 0

\* C11: GetAsyncResponse called in a state other than Ready returns the
\* empty string and changes neither the state nor the two slots.
TakeResultOnlyWhenReady ==
    [][\A t \in Threads :
         (ret'.t = t /\ ret'.op = "GetAsyncResponse" /\ g_asyncState # Ready)
         => /\ ret'.val = ""
            /\ UNCHANGED slotVars]_vars

\* GetAsyncResponse returned nothing in state Failed, although the worker
\* had stored its result in the payload slot.
TakeResultRefusedWhenFailed ==
    /\ ret.op = "GetAsyncResponse" /\ ret.val = ""
    /\ g_asyncState = Failed
    /\ g_asyncResponse # ""

\* C12: GetAsyncError called in state Idle, Pending or Ready returns the
\* empty string, in every reachable state.
TakeErrorOnlyWhenFailed ==
    [][\A t \in Threads :
         (ret'.t = t /\ ret'.op = "GetAsyncError" /\ g_asyncState # Failed)
         => ret'.val = ""]_vars

\* GetAsyncError returned nothing in state Idle after a launched cycle was
\* cancelled.
TakeErrorEmptyAfterCancel ==
    /\ ret.op = "GetAsyncError" /\ ret.val = ""
    /\ g_asyncState = Idle
    /\ \E w \in WorkerIds : worker[w].pc = "joined" /\ worker[w].snap = NoSnap
    /\ cancelSeen = "no"
    /\ nLaunched > 0
    /\ g_asyncCancelled

\* C13: a fresh query for (turn, actor) that succeeds stores its payload P
\* under that pair, and nothing but such a query or a reset changes the
\* entry; while the entry holds P, a query (blocking or by the worker)
\* whose snapshot carries the same pair returns P without a service call,
\* and a query whose snapshot carries another turn or another actor goes
\* to the service.
CacheHitAndMiss ==
    [][LET Entry(snap, P) == <<snap.turn, snap.playerID, P>>
           Same(snap) == /\ snap.turn >= 0 /\ snap.playerID >= 0
                         /\ snap.turn = g_lastQueriedTurn
                         /\ snap.playerID = g_lastQueriedPlayer
           BlockingFresh(t) == /\ pc[t] = "gac_http"
                               /\ ret'.t = t /\ ret'.op = "GetActionFromClaude"
           WorkerFresh(w) == worker[w].pc = "w_http" /\ worker'[w].pc = "w_check"
           BlockingLookup(t) == /\ pc[t] = "ready"
                                /\ \/ ret'.t = t /\ ret'.op = "GetActionFromClaude"
                                   \/ pc'[t] \in {"gac_http", "gac_throw"}
           WorkerLookup(w) == worker[w].pc = "w_gac" /\ worker'[w].pc # "w_gac"
       IN
       /\ \A t \in SeqThreads :
            (BlockingFresh(t) /\ ~ContainsError(ret'.val))
            => cacheVars' = Entry(loc[t].snap, ret'.val)
       /\ \A w \in WorkerIds :
            (WorkerFresh(w) /\ ~ContainsError(worker'[w].result))
            => cacheVars' = Entry(worker[w].snap, worker'[w].result)
       /\ cacheVars' # cacheVars
            => \/ \E t \in SeqThreads : BlockingFresh(t)
               \/ \E w \in WorkerIds : WorkerFresh(w)
               \/ ret'.op = "ResetTurnTracking"
       /\ \A t \in SeqThreads :
            (BlockingLookup(t) /\ g_cachedResponse # "")
            => LET snap == IF pc'[t] = "ready" THEN ret'.arg ELSE loc'[t].snap IN
               IF Same(snap)
               THEN /\ ret'.t = t /\ ret'.op = "GetActionFromClaude"
                    /\ ret'.val = g_cachedResponse
                    /\ UNCHANGED <<served, cacheVars>>
               ELSE snap.utf8 => pc'[t] = "gac_http"
       /\ \A w \in WorkerIds :
            (WorkerLookup(w) /\ g_cachedResponse # "")
            => IF Same(worker[w].snap)
               THEN /\ worker'[w].pc = "w_check"
                    /\ worker'[w].result = g_cachedResponse
                    /\ UNCHANGED <<served, cacheVars>>
               ELSE worker[w].snap.utf8 => worker'[w].pc = "w_http"]_vars

\* A blocking query for turn 5, player 0 was answered from the cache, after
\* the one service call for that pair.
BlockingQueryServedFromCache ==
    /\ ret.op = "GetActionFromClaude" /\ ret.arg = SnapTurn5
    /\ ret.val = g_cachedResponse /\ ret.val = ActEndTurn
    /\ lastLookup = "hit"
    /\ served = {TurnKey(SnapTurn5)}
    /\ RunningWorkers = {}

\* C14: between two resets HttpPost is called at most once per
\* (turn, playerID) pair with both components >= 0, whatever the sequence
\* of blocking and async queries: no service call is made for a pair that
\* was served since the last reset.
OneServiceCallPerTurnKey ==
    [][LET Keyed(snap) == snap.turn >= 0 /\ snap.playerID >= 0 IN
       /\ \A t \in SeqThreads :
            (pc[t] = "gac_http" /\ pc'[t] # "gac_http" /\ Keyed(loc[t].snap))
            => TurnKey(loc[t].snap) \notin served
       /\ \A w \in WorkerIds :
            (worker[w].pc = "w_http" /\ worker'[w].pc # "w_http"
               /\ Keyed(worker[w].snap))
            => TurnKey(worker[w].snap) \notin served]_vars

\* C15: when the service replies with an error object carrying message M,
\* the cycle's published state is Failed and GetAsyncError returns exactly
\* M: what EscapeJson did to M is undone when the worker parses the result.
ErrorMessageSurfacesExactly ==
    /\ fnRes.stage = "published" => fnRes.state = Failed /\ fnRes.error = fnArg
    /\ fnRes.stage = "taken" => fnRes.state = Failed /\ fnRes.error = fnArg

\* The error text taken was a message with a quote, a backslash and a
\* control character in it.
EscapedMessageTaken ==
    /\ fnRes.stage = "taken"
    /\ fnArg = <<Char.quote, Char.backslash, 31>>
    /\ fnRes.error = fnArg

\* C16: once g_shutdownRequested is set, a call of the blocking query
\* returns an error payload without going on to the service, and a call
\* of async-start returns false, launches no worker and leaves the request
\* state, the slots and the cancel flag as they are.
ShutdownRefusesNewWork ==
    [][\A t \in SeqThreads :
         (g_shutdownRequested /\ pc[t] = "ready")
         => /\ (ret'.op = "SendGameStateToClaudeAPI" \/ pc'[t] = "send_call")
               => /\ ret'.t = t /\ ret'.op = "SendGameStateToClaudeAPI"
                  /\ ContainsError(ret'.val)
                  /\ UNCHANGED <<served, cacheVars>>
            /\ (ret'.op = "StartClaudeAPIRequest" \/ pc'[t] = "lua_start")
               => /\ ret'.t = t /\ ret'.op = "StartClaudeAPIRequest"
                  /\ ret'.val = FALSE
                  /\ UNCHANGED <<slotVars, threadVars, g_asyncCancelled>>]_vars

\* Async-start was refused after the signal, with a snapshot and in a
\* state in which it is accepted otherwise.
StartRefusedAfterShutdown ==
    /\ g_shutdownRequested
    /\ ret.op = "StartClaudeAPIRequest" /\ ret.arg = SnapTurn5
    /\ ret.val = FALSE
    /\ g_asyncState = Ready
    /\ g_apiKey # ""

\* C18 as stated: every poll returns a status of the five, with a second
\* value exactly for ready and error, and the status is the token of the
\* request state at the poll.
PollStatusMatchesState ==
    [][\A t \in SeqThreads :
         (ret'.t = t /\ ret'.op = "CheckClaudeAPIResponse")
         => LET v == ret'.val.pushed
                state == CASE pc[t] = "poll_take" -> Ready
                           [] pc[t] = "poll_error" -> Failed
                           [] OTHER -> g_asyncState
            IN /\ v[1] \in PollStatuses
               /\ Len(v) = IF v[1] \in {"ready", "error"} THEN 2 ELSE 1
               /\ v[1] \in StatusesOf(state)]_vars

\* C18, amended: every poll returns a status of the five, with a second
\* value exactly for ready and error. A poll called after the shutdown
\* signal returns error and "Shutdown in progress" without reading the
\* request state; any other poll reads the state once and returns its
\* token (Idle: idle, Pending: pending, Ready: ready or ready_long,
\* Failed: error).
PollContract ==
    [][\A t \in SeqThreads :
         /\ (ret'.t = t /\ ret'.op = "CheckClaudeAPIResponse")
            => LET v == ret'.val.pushed IN
               /\ v[1] \in PollStatuses
               /\ Len(v) = IF v[1] \in {"ready", "error"} THEN 2 ELSE 1
               /\ CASE pc[t] = "ready" ->
                         g_shutdownRequested /\ v = <<"error", "Shutdown in progress">>
                    [] pc[t] = "poll_state" -> v[1] \in StatusesOf(g_asyncState)
                    [] pc[t] = "poll_take" -> v[1] \in StatusesOf(Ready)
                    [] pc[t] = "poll_error" -> v[1] \in StatusesOf(Failed)
                    [] OTHER -> FALSE
         /\ (pc[t] = "ready" /\ pc'[t] = "poll_state") => ~g_shutdownRequested
         /\ (pc[t] = "poll_state" /\ pc'[t] = "poll_take") => g_asyncState = Ready
         /\ (pc[t] = "poll_state" /\ pc'[t] = "poll_error") => g_asyncState = Failed]_vars

\* A poll after the shutdown signal returned error although no request
\* had failed: the state is Idle.
PollErrorWhileIdle ==
    /\ ret.op = "CheckClaudeAPIResponse"
    /\ ret.val.pushed = <<"error", "Shutdown in progress">>
    /\ g_shutdownRequested
    /\ g_asyncState = Idle /\ g_asyncError = ""

NoRegistrationAfterShutdown ==
    [][g_shutdownRequested
         => /\ bindings' = bindings
            /\ g_registeredStates' \subseteq g_registeredStates]_vars

\* C20: the region searched for an object is the contents of the
\* JSON-tagged fenced block if the text has one, otherwise the contents of
\* the fenced block if it has one, otherwise the whole text.
RegionByPrecedence ==
    fnRes.stage = "extracted"
    => fnRes.region =
         IF FencedBlock(fnArg, Marker.json).found
         THEN FencedBlock(fnArg, Marker.json).contents
         ELSE IF FencedBlock(fnArg, Marker.fence).found
         THEN FencedBlock(fnArg, Marker.fence).contents
         ELSE fnArg

\* C21: from the first opening brace of the candidate region on, an
\* opening brace counts +1 and a closing brace -1; if the text from that
\* brace to the first position where the count is back at 0 is valid
\* JSON, exactly that text is returned, without what stands before and
\* after it.
BalancedObjectReturned ==
    fnRes.stage = "extracted"
    => LET text == fnRes.region
           opens == {i \in 1..Len(text) : text[i] = Char.open}
           first == CHOOSE i \in opens : \A j \in opens : i <= j
           Depth(i) == Cardinality({k \in first..i : text[k] = Char.open})
                         - Cardinality({k \in first..i : text[k] = Char.close})
           ends == {i \in first..Len(text) : Depth(i) = 0}
           end == CHOOSE i \in ends : \A j \in ends : i <= j
       IN opens # {} /\ ends # {} /\ ParseObject(SubSeq(text, first, end)).ok
            => fnRes.out = SubSeq(text, first, end)

\* A blank, an object with an object inside and a second object: the
\* first object is returned, without the blank and the second object.
NestedObjectCutOut ==
    /\ fnRes.stage = "extracted"
    /\ Len(fnArg) = 15 /\ fnArg[1] = 32
    /\ SubSeq(fnArg, 14, 15) = <<Char.open, Char.close>>
    /\ fnRes.region = fnArg
    /\ fnRes.out = SubSeq(fnArg, 2, 13)
    /\ Cardinality({i \in 2..13 : fnArg[i] = Char.open}) = 2

\* C22: for every input in which no balanced, valid JSON object is found,
\* the extractor returns the original input text with its leading and
\* trailing whitespace removed and nothing else changed, also when the
\* input contains a fenced block.
VerbatimFallback ==
    fnRes.stage = "extracted"
    => LET text == fnRes.region
           opens == {i \in 1..Len(text) : text[i] = Char.open}
           first == CHOOSE i \in opens : \A j \in opens : i <= j
           Depth(i) == Cardinality({k \in first..i : text[k] = Char.open})
                         - Cardinality({k \in first..i : text[k] = Char.close})
           ends == {i \in first..Len(text) : Depth(i) = 0}
           end == CHOOSE i \in ends : \A j \in ends : i <= j
           solid == {i \in 1..Len(fnArg) : fnArg[i] \notin {32, 9, 10, 13}}
       IN ~(opens # {} /\ ends # {} /\ ParseObject(SubSeq(text, first, end)).ok)
            => fnRes.out =
                 IF solid = {} THEN fnArg
                 ELSE SubSeq(fnArg, CHOOSE i \in solid : \A j \in solid : i <= j,
                                    CHOOSE i \in solid : \A j \in solid : j <= i)

\* C23: when the credential is absent no key is ever installed and the
\* subsystem stays inert: no request is sent to the service, the blocking
\* query returns the error payload, and async-start returns false, leaves
\* the state Failed with the initialisation error and launches no worker.
ConfigErrorInert ==
    [][~envHasKey
         => /\ g_apiKey' = ""
            /\ served' = served
            /\ nLaunched' = nLaunched /\ worker' = worker
            /\ (ret'.op = "GetActionFromClaude"
                  => ret'.val = ErrNoKey /\ ContainsError(ret'.val))
            /\ (ret'.op = "Start"
                  => /\ ret'.val = FALSE
                     /\ g_asyncState' = Failed
                     /\ g_asyncError' = "Failed to initialize API")]_vars

\* Without a credential an async-start has failed, and after it the
\* blocking query was refused for the missing key.
QueryRefusedWithoutCredential ==
    /\ ~envHasKey /\ g_apiKey = ""
    /\ ret.op = "GetActionFromClaude" /\ ret.val = ErrNoKey
    /\ g_asyncState = Failed /\ g_asyncError = "Failed to initialize API"
    /\ nLaunched = 0 /\ served = {}

\* C24: every outcome of the blocking query is a non-empty, well-formed
\* JSON object string, an error payload or an action payload; no failure
\* leaves the call as an exception.
BlockingQueryAlwaysAnswers ==
    [][\A t \in SeqThreads :
         ret'.t = t /\ ret'.op = "GetActionFromClaude"
         => /\ pc[t] # "gac_throw"
            /\ ret'.val # ""
            /\ \/ ContainsError(ret'.val)
               \/ ret'.val \in {ActEndTurn, ActAlreadyQueried}]_vars

\* C25: when the answer text holds no JSON-shaped content (no brace and
\* no number, for example plain prose), the result is the default
\* end-turn action whose reason is the raw answer text.
ExtractionMissCarriesText ==
    /\ fnRes.stage = "result" /\ fnRes.envelope = "content"
    /\ \A i \in 1..Len(fnArg) :
         fnArg[i] \notin {Char.open, Char.close} \cup (48..57)
    => LET obj == ParseObject(fnRes.result) IN
         /\ obj.ok
         /\ Contains(obj, Literal.action) /\ Contains(obj, Literal.reason)
         /\ ValueOf(obj, Literal.action) = Literal.endTurn
         /\ ValueOf(obj, Literal.reason) = fnArg

\* C26: malformed JSON at either parse point (the envelope, or the text
\* extracted from the answer) gives the default end-turn action with a
\* reason and no error payload, and in the async path the cycle then ends
\* Ready, not Failed.
ParseErrorDegrades ==
    LET malformed ==
          \/ fnRes.envelope = "garbled"
          \/ /\ fnRes.envelope = "content"
             /\ ExtractJsonFromResponse(fnArg) # <<>>
             /\ ~ParseAndDump(ExtractJsonFromResponse(fnArg)).ok
        obj == ParseObject(fnRes.result)
    IN fnRes.stage \in {"result", "published"} /\ malformed
       => /\ obj.ok /\ ~Contains(obj, ErrorKey)
          /\ Contains(obj, Literal.action) /\ Contains(obj, Literal.reason)
          /\ ValueOf(obj, Literal.action) = Literal.endTurn
          /\ fnRes.stage = "published" => fnRes.state = Ready

\* C27: teardown is idempotent and safe without an installed hook: when
\* CleanupHavokScriptIntegration returns, the primary handle is unset, the
\* registered set is empty and the hook is not installed, whether it was
\* called once, twice in a row or with no hook installed; MinHook is
\* called only if the hook was installed, and a second call in a row
\* changes nothing.
TeardownIdempotent ==
    [][/\ ret'.op = "Cleanup"
          => /\ g_luaState' = NullState /\ g_registeredStates' = {}
             /\ ~g_pcallHookInstalled' /\ g_originalPcall' = "null"
       /\ \/ pc[DllThread] \in {"d_disable", "d_remove"}
          \/ ret'.op = "Cleanup" /\ mhHook' # mhHook
          => g_pcallHookInstalled
       /\ ret.op = "Cleanup" /\ ret'.op = "Cleanup"
          => hookVars' = hookVars]_vars

\* Teardown has returned for the second time at least, after a runtime
\* instance had been registered under the installed hook.
TeardownRepeated ==
    /\ pc[DllThread] = "d_done_again" /\ ret.op = "Cleanup"
    /\ \E h \in LuaStates : bindings[h] > 0
    /\ g_luaState = NullState /\ g_registeredStates = {}
    /\ ~g_pcallHookInstalled /\ mhHook = "none"

\* C28: hook installation ends after at most kMaxHookRetries creation
\* attempts: a new attempt follows only a failed one and is counted, the
\* allocation failure is returned only from the last attempt, the
\* installed flag is set only by a call that returns with enabling
\* succeeded (or the existing hook already enabled), and a call that
\* returns any other status leaves the flag and the hook as they were;
\* every call that has begun returns.
InstallEndsWithinRetries ==
    /\ [][/\ loc'[HostThread].attempt <= kMaxHookRetries
          /\ (pc[HostThread] = "h_create" /\ pc'[HostThread] = "h_create"
                /\ loc'[HostThread] # loc[HostThread])
               => /\ loc'[HostThread].attempt = loc[HostThread].attempt + 1
                  /\ mhHook' = mhHook /\ mhHook = "none"
                  /\ g_pcallHookInstalled' = g_pcallHookInstalled
          /\ (ret'.op = "InstallPcallHook" /\ ret'.val = "MH_ERROR_MEMORY_ALLOC")
               => loc[HostThread].attempt = kMaxHookRetries
          /\ (g_pcallHookInstalled' /\ ~g_pcallHookInstalled)
               => /\ ret'.op = "InstallPcallHook"
                  /\ ret'.val \in {"MH_OK", "MH_ERROR_ENABLED"}
                  /\ mhHook' = "enabled"
          /\ (ret'.op = "InstallPcallHook"
                /\ ret'.val \notin {"MH_OK", "MH_ERROR_ENABLED"})
               => /\ g_pcallHookInstalled' = g_pcallHookInstalled
                  /\ mhHook' = mhHook /\ mhHook # "enabled"]_vars
    /\ (pc[HostThread] # "h_ready") ~> (ret.op = "InstallPcallHook")

\* The fifth attempt has failed for lack of memory: the call returned, no
\* hook is installed and nothing is intercepted.
InstallGaveUp ==
    /\ ret.op = "InstallPcallHook" /\ ret.val = "MH_ERROR_MEMORY_ALLOC"
    /\ pc[HostThread] = "h_ready"
    /\ ~g_pcallHookInstalled /\ mhHook = "none"

\* C29: the primary handle is captured first-writer-wins. g_luaState changes
\* only in a step where a thread enters the patched pcall with a non-null
\* handle while the slot is unset, and then it takes that thread's handle;
\* every such entry sets it; a set slot keeps its value under every later
\* entry by any thread with any handle. Before teardown the slot is unset
\* exactly while no non-null handle has been seen, and the stored handle is
\* one of the handles seen.
PrimaryHandleFirstWriterWins ==
    /\ [](/\ g_luaState = NullState <=> observed = {}
          /\ g_luaState # NullState => g_luaState \in observed)
    /\ [][/\ g_luaState # NullState => g_luaState' = g_luaState
          /\ g_luaState' # g_luaState
               => \E t \in Threads :
                     /\ pc[t] = "ready" /\ pc'[t] = "hook_check"
                     /\ loc'[t].L # NullState /\ g_luaState' = loc'[t].L
          /\ \A t \in Threads :
                (/\ pc[t] = "ready" /\ pc'[t] = "hook_check"
                 /\ loc'[t].L # NullState /\ g_luaState = NullState)
                  => g_luaState' = loc'[t].L]_vars

\* Two threads are inside the patched pcall with different non-null handles
\* and the slot holds the handle of one of them.
PrimaryHandleRaced ==
    \E t \in Threads, u \in Threads :
       /\ t # u /\ pc[t] = "hook_check" /\ pc[u] = "hook_check"
       /\ loc[t].L # NullState /\ loc[u].L # NullState /\ loc[t].L # loc[u].L
       /\ g_luaState = loc[t].L

\* C30: when the worker publishes an uncancelled result, the state is
\* Failed exactly when the result text is an object with a top-level
\* "error" member, and Ready otherwise; in the Failed case the error slot
\* holds that member's text, in the Ready case the payload slot holds the
\* result.
PublishFailedIffErrorMarker ==
    fnRes.stage = "published" =>
      LET obj == ParseObject(fnRes.result)
          marked == obj.ok /\ Contains(obj, ErrorKey)
      IN /\ fnRes.state = Failed <=> marked
         /\ fnRes.state = Failed => fnRes.error = ValueOf(obj, ErrorKey)
         /\ fnRes.state = Ready => fnRes.response = fnRes.result

\* C31: an exception raised by GetActionFromClaude inside the worker ends
\* the cycle Failed with the exception's description ("Exception: " and
\* what()) in the error slot, and the worker goes on to its normal exit
\* without ending the process; no worker exits while the state is Pending,
\* and the state is Pending only while a worker runs or Start is about to
\* launch one.
WorkerExceptionEndsFailed ==
    /\ [](g_asyncState = Pending
            => \/ RunningWorkers # {}
               \/ \E t \in SeqThreads : pc[t] = "start_launch")
    /\ [][\A w \in WorkerIds :
            /\ (worker[w].pc = "w_gac" /\ worker'[w].pc # "w_gac"
                  /\ GacPre(worker[w].snap).kind = "throw")
                 => worker'[w].pc = "w_catch" /\ slotVars' = slotVars
            /\ (worker[w].pc = "w_catch" /\ worker'[w].pc # "w_catch")
                 => /\ g_asyncState' = Failed
                    /\ g_asyncError' = ExceptionText
                    /\ worker'[w].pc = "w_return"
                    /\ ~terminated'
            /\ (worker[w].pc # "exited" /\ worker'[w].pc = "exited")
                 => /\ worker[w].pc = "w_return"
                    /\ g_asyncState' # Pending]_vars

\* A worker whose query threw has exited and left the cycle Failed with
\* the description.
WorkerExitedAfterException ==
    /\ \E w \in WorkerIds : worker[w].pc = "exited"
    /\ RunningWorkers = {}
    /\ g_asyncState = Failed /\ g_asyncError = ExceptionText

CancelReturns ==
    /\ [](\A t \in SeqThreads :
            pc[t] = "cancel_joining" /\ RunningWorkers = {}
              => loc[t].h # 0 /\ JoinReturns(loc[t].h))
    /\ [][\A t \in SeqThreads :
            (pc[t] = "cancel_join" /\ pc'[t] # "cancel_join" /\ g_asyncThread = 0)
              => pc'[t] = "cancel_reset"]_vars
    /\ \A t \in SeqThreads :
         (pc[t] \in {"cancel_join", "cancel_joining", "cancel_reset"})
           ~> (ret.t = t /\ ret.op = "Cancel")

\* Cancel is inside join() while the worker is inside HttpPost.
CancelWaitsOnServiceCall ==
    \E t \in SeqThreads :
       /\ pc[t] = "cancel_joining" /\ loc[t].h # 0
       /\ worker[loc[t].h].pc = "w_http"

\* C34: in every reachable state at most one of g_asyncResponse and
\* g_asyncError is non-empty: the payload slot is non-empty only in
\* Ready, the error slot only in Failed.
SlotsMutuallyExclusive ==
    /\ g_asyncResponse = "" \/ g_asyncError = ""
    /\ g_asyncResponse # "" => g_asyncState = Ready
    /\ g_asyncError # "" => g_asyncState = Failed

\* C35: once the shutdown signal is raised and teardown has stored null in
\* g_luaState, the slot stays null, whatever an intercepted call that was
\* in progress during teardown does afterwards (the hook itself is gone:
\* no later call arrives in the handler).
PrimaryHandleStaysInvalid ==
    /\ g_shutdownRequested
    /\ pc[DllThread] \in {"d_clear_orig", "d_clear_set", "d_done", "d_done_again"}
    /\ mhHook = "none"
    => g_luaState = NullState

\* C36: a poll that returns the status "ready" returns a second value, and
\* it is the non-empty payload: no poll pushes "ready" with an empty
\* string, whatever runs between its GetAsyncState and its
\* GetAsyncResponse.
PollReadyHasPayload ==
    ret.op = "CheckClaudeAPIResponse" /\ ret.val.pushed[1] = "ready"
      => Len(ret.val.pushed) = 2 /\ ret.val.pushed[2] # ""

\* C37: the turn cache is consistent in every reachable state: a stored
\* payload is the answer to the query of the stored turn key, and a
\* blocking query that returns a payload returns the answer for its own
\* turn key (fresh, or from the cache on a hit; the placeholder when the
\* cache holds no payload), also while the worker runs
\* GetActionFromClaude beside it.
CacheEntryConsistent ==
    /\ g_cachedResponse # ""
         => g_cachedResponse = AnswerFor(<<g_lastQueriedTurn, g_lastQueriedPlayer>>)
    /\ ret.op = "GetActionFromClaude"
         => ret.val \in {ErrNoKey, ActAlreadyQueried, AnswerFor(TurnKey(ret.arg))}

\* C38: the forward step of an intercepted call uses a valid original
\* entry point: when the handler calls through g_originalPcall the pointer
\* is not null and the trampoline it points to has not been freed by
\* MH_RemoveHook, for every interleaving of the call with teardown.
ForwardUsesValidOriginal ==
    [][\A t \in SeqThreads :
         (pc[t] = "hook_forward" /\ ret'.t = t /\ ret'.op = "pcall")
           => /\ g_originalPcall = "trampoline"
              /\ mhHook # "none"
              /\ ~terminated']_vars

\* C39, one step: what is delivered is what the worker of the most recent
\* accepted Start stored. An accepted Start empties both slots while no
\* worker runs; a slot is filled only by the publishing (or catching) step
\* of the worker launched last, which is the only worker running; Cancel
\* returns with both slots empty and no worker running; GetAsyncResponse
\* hands out the payload slot in Ready and empties it, GetAsyncError
\* hands out the error slot. With startMayFail, the error slot may also be
\* filled by a Start that returns false because Initialize failed.
FreshStep(startMayFail) ==
    LET ByLatestWorker(labels) ==
          /\ nLaunched > 0
          /\ worker[nLaunched].pc \in labels
          /\ worker'[nLaunched].pc = "w_return"
    IN /\ \A w \in RunningWorkers : w = nLaunched
       /\ (\E t \in SeqThreads : pc[t] = "start_reset" /\ pc'[t] = "start_launch")
            => /\ g_asyncResponse' = "" /\ g_asyncError' = ""
               /\ RunningWorkers = {}
       /\ (g_asyncResponse' # g_asyncResponse /\ g_asyncResponse' # "")
            => /\ ByLatestWorker({"w_publish"})
               /\ g_asyncResponse' = worker[nLaunched].result
               /\ g_asyncState = Pending
       /\ (g_asyncError' # g_asyncError /\ g_asyncError' # "")
            => \/ ByLatestWorker({"w_publish", "w_catch"}) /\ g_asyncState = Pending
               \/ /\ startMayFail
                  /\ ret'.op = "Start" /\ ret'.val = FALSE /\ ~InitializeOk
       /\ (ret'.op = "GetAsyncResponse" /\ ret'.val # "")
            => /\ g_asyncState = Ready /\ ret'.val = g_asyncResponse
               /\ g_asyncResponse' = ""
       /\ ret'.op = "GetAsyncError" => ret'.val = g_asyncError
       /\ ret'.op = "Cancel"
            => /\ g_asyncResponse' = "" /\ g_asyncError' = ""
               /\ RunningWorkers = {}

\* C39 (as stated): every payload and every error that is delivered was
\* produced by the worker of the most recent accepted Start.
DeliveredByLatestWorker == [][FreshStep(FALSE)]_vars

\* C39 (amended): the same, except that the error slot is also filled, and
\* then delivered, by a Start that is not accepted because the credential
\* cannot be initialised.
DeliveredResultsFresh == [][FreshStep(TRUE)]_vars

\* GetAsyncError returned the error of a refused Start: no worker was ever
\* launched.
ErrorOfRefusedStartTaken ==
    /\ ret.op = "GetAsyncError" /\ ret.val = "Failed to initialize API"
    /\ nLaunched = 0

\* C40: while a worker is inside HttpPost the state is Pending, and after
\* every Start that returned true the state eventually is Ready, Failed or
\* Idle, whatever the runtime thread does or does not call meanwhile.
AcceptedStartLeavesPending ==
    /\ [](\A w \in WorkerIds : worker[w].pc = "w_http" => g_asyncState = Pending)
    /\ (ret.op = "Start" /\ ret.val = TRUE) ~> (g_asyncState \in {Ready, Failed, Idle})

\* The second accepted Start has returned and its worker is inside HttpPost.
SecondWorkerInServiceCall ==
    /\ nLaunched = 2 /\ g_asyncThread = 2
    /\ worker[2].pc = "w_http" /\ g_asyncState = Pending
    /\ \A t \in SeqThreads : pc[t] = "ready"

====
